---- MODULE Spec2Model ----
(***************************************************************************)
(* State-machine model of the byte-oriented store of marcthe12/cache:     *)
(* the intrusive hash table (store.go), the policy-ordered eviction list  *)
(* (evict policy file) and the store operations Set, Get, Delete,         *)
(* UpdateInPlace, Memorize, Cleanup, Evict and Clear.                     *)
(*                                                                         *)
(* Nodes are heap objects; a node is named by a small integer handle.     *)
(* A hash chain and the eviction list are circular doubly-linked lists    *)
(* through a sentinel; each is written as the sequence of handles met     *)
(* when following the Next pointers from the sentinel back to it.         *)
(***************************************************************************)
EXTENDS Integers, Sequences, FiniteSets, TLC

\* ------------------------------------------------------------------ bounds
\* Spec: every policy, two keys.
MaxTime == 2
MaxNodes == 2
MaxAccess == 1
CostLimit == 4
\* SpecOrder, SpecLFU, SpecLTR, SpecRef: one policy at a time, three keys.
MaxTTL == 2
MaxEntries == 3
\* SpecGrow: enough nodes and time to fill the initial table.
GrowTime == 3
GrowNodes == 8
\* SpecFill: enough distinct keys to grow the table.
FillNodes == 9
\* SpecTimer: the calls of Reset on one timer.
MaxResets == 3
\* SpecConc: a cost bound that two entries exceed.
SmallCost == 3

\* ------------------------------------------------------- program constants
initialBucketSize == 8
loadFactorNum == 3
loadFactorDen == 4

PolicyNone == 0
PolicyFIFO == 1
PolicyLRU == 2
PolicyLFU == 3
PolicyLTR == 4

\* Go's nil pointer, and the handle of the store's embedded EvictList node.
Nil == 0 - 1
Sentinel == 0

\* ----------------------------------------------------------------- inputs
\* Keys "1", "9", "2": "1" and "9" share a bucket of an 8-bucket table and
\* are split by the first resize.
KeyList == << <<49>>, <<57>>, <<50>>, <<51>>, <<52>>, <<53>>, <<54>>, <<55>>,
             <<56>> >>
AllKeys == {KeyList[1], KeyList[2], KeyList[3]}
Keys == {KeyList[1], KeyList[2]}
Values == {<<97>>, <<98, 98>>}
OneValue == {<<97>>}
ShortTTLs == {0, 1}
TTLs == 0..MaxTTL
Policies == {PolicyNone, PolicyFIFO, PolicyLRU, PolicyLFU, PolicyLTR}
MaxCosts == {0, CostLimit}

\* The error a user callback may return instead of a value.
CallbackErr == "callback error"
ErrKeyNotFound == "key not found"

\* The error a failed write of the snapshot returns, and the error made
\* from a recovered panic.
SnapshotErr == "write error"
PanicErr == "panic occurred"

\* The goroutines: the background worker, the users, the caller of Close.
Worker == 0
Users == {1, 2}
Closer == 3
Threads == {Worker, Closer} \cup Users
NoThread == 0 - 1

\* The locals of a thread that executes no call.
NoCall == [op |-> "none"]

\* The cleanup interval set by store.Init, in seconds.
CleanupInterval == 10

\* sync.RWMutex: at most one writer, or any number of readers.
FreeLock == [w |-> NoThread, r |-> {}]
CanLock_Readers(m) == m.w = NoThread
CanLock(m) == m.w = NoThread /\ m.r = {}
CanRLock_Always(m) == TRUE
CanRLock(m) == m.w = NoThread
DoLock(m, t) == [m EXCEPT !.w = t]
DoUnlock_Keep(m, t) == m
DoUnlock(m, t) == IF m.w = t THEN [m EXCEPT !.w = NoThread] ELSE m
DoRLock(m, t) == [m EXCEPT !.r = @ \cup {t}]
DoRUnlock(m, t) == [m EXCEPT !.r = @ \ {t}]

\* pausedtimer: Resume re-arms at the last duration, zero meaning stopped.
New(d) == [duration |-> d, running |-> d # 0]
NewStopped(d) == [duration |-> d, running |-> FALSE]
TimerReset_Arm(t, d) == [duration |-> d, running |-> TRUE]
TimerReset(t, d) == [duration |-> d, running |-> d # 0]
TimerResume(t) == TimerReset(t, t.duration)
TimerStop_Forget(t) == [duration |-> 0, running |-> FALSE]
TimerStop(t) == [t EXCEPT !.running = FALSE]

\* ------------------------------------------------------------------- hash
\* A uint64 is held as 8 little-endian byte limbs so that products stay
\* inside the integers of the checker.
RECURSIVE Xor8(_, _, _)
Xor8(a, b, bits) ==
  IF bits = 0 THEN 0
  ELSE (((a % 2) + (b % 2)) % 2) + 2 * Xor8(a \div 2, b \div 2, bits - 1)

\* offset64 = 0xcbf29ce484222325, prime64 = 0x100000001b3
offset64 == <<37, 35, 34, 132, 228, 156, 242, 203>>
prime64 == <<179, 1, 0, 0, 0, 1, 0, 0>>

RECURSIVE ColumnSum(_, _, _, _)
ColumnSum(a, b, col, i) ==
  IF i > col THEN 0 ELSE a[i] * b[col - i + 1] + ColumnSum(a, b, col, i + 1)

RECURSIVE Carry(_, _, _, _)
Carry(a, b, col, carry) ==
  IF col > 8 THEN <<>>
  ELSE LET t == ColumnSum(a, b, col, 1) + carry
       IN <<t % 256>> \o Carry(a, b, col + 1, t \div 256)

\* a * b modulo 2^64
Mul64(a, b) == Carry(a, b, 1, 0)

RECURSIVE hashFrom(_, _, _)
hashFrom(h, data, i) ==
  IF i > Len(data) THEN h
  ELSE LET m == Mul64(h, prime64)
       IN hashFrom([m EXCEPT ![1] = Xor8(m[1], data[i], 8)], data, i + 1)

\* hash/fnv New64: multiply by the prime, then xor the byte in.
hash(data) == hashFrom(offset64, data, 1)

RECURSIVE ModFrom(_, _, _)
ModFrom(h, n, i) ==
  IF i = 0 THEN 0 ELSE (ModFrom(h, n, i - 1) * 256 + h[9 - i]) % n

\* h % n for a uint64 h in limbs (the low limb decides when n divides 256)
Mod64(h, n) == IF 256 % n = 0 THEN h[1] % n ELSE ModFrom(h, n, 8)

\* The hashes of the keys in use, computed once.
HashList == [i \in 1..Len(KeyList) |-> hash(KeyList[i])]
HashOf(key) == HashList[CHOOSE i \in 1..Len(KeyList) : KeyList[i] = key]

\* --------------------------------------------------------------- sequences
RECURSIVE IndexOf(_, _, _)
IndexOf(s, x, i) ==
  IF i > Len(s) THEN 0 ELSE IF s[i] = x THEN i ELSE IndexOf(s, x, i + 1)

Pos(s, x) == IndexOf(s, x, 1)

Remove(s, x) == SelectSeq(s, LAMBDA y : y # x)

RECURSIVE SumSeq(_, _)
SumSeq(s, i) == IF i > Len(s) THEN 0 ELSE s[i] + SumSeq(s, i + 1)


\* ------------------------------------------------------------------ state
VARIABLES
  now,        \* the wall clock read by time.Now()
  Bucket,     \* store.Bucket: index -> hash chain (handles, front first)
  node,       \* the linked node objects: handle -> fields
  EvictList,  \* chain of store.EvictList, front first, tail = next victim
  Length,     \* store.Length
  Cost,       \* store.Cost
  MaxCost,    \* store.MaxCost
  Policy,     \* store.Policy.Type
  ret,        \* what the last call returned
  ref,        \* reference mapping fed the same Set and Delete calls
  insOrder,   \* linked nodes, most recently inserted first (FIFO only)
  useOrder,   \* linked nodes, most recently used first (LRU only)
  lastValue,  \* linked key -> the value most recently stored under it
  err,        \* cache.err, the latent error ("nil" if none)
  File,       \* cache.File: whether one is set, and the bytes it holds
  Lock,       \* store.Lock: the writer and the readers holding it
  EvictLock,  \* store.EvictLock, the lock of the policy's list
  Stop,       \* whether the channel cache.Stop is closed
  wg,         \* the counter of cache.wg
  SnapshotTicker,  \* store.SnapshotTicker: duration, and whether it runs
  CleanupTicker,   \* store.CleanupTicker
  pc,         \* thread -> where it stands in the call it executes
  call,       \* thread -> the local variables of that call
  hist        \* what the worker's exit and Close's flush saw

\* The fields of the cache around the store.
aroundVars == <<Lock, EvictLock, Stop, wg, SnapshotTicker, CleanupTicker, pc,
                call, hist>>
cacheVars == <<err, File, aroundVars>>

vars == <<now, Bucket, node, EvictList, Length, Cost, MaxCost, Policy,
          ret, ref, insOrder, useOrder, lastValue, cacheVars>>

\* The store fields an operation reads and writes, as one record.
Cur ==
  [Bucket |-> Bucket, node |-> node, EvictList |-> EvictList,
   Length |-> Length, Cost |-> Cost]

\* The linked nodes, front to back.
NodesInOrder == [i \in 1..Len(EvictList) |-> node[EvictList[i]]]

\* Handles are names for heap objects and carry no meaning: after every
\* operation the linked nodes are renamed 1..n in eviction-list order (a
\* node that is on no eviction list keeps its place after them).
RECURSIVE Ascending(_)
Ascending(S) ==
  IF S = {} THEN <<>>
  ELSE LET m == CHOOSE x \in S : \A y \in S : x <= y
       IN <<m>> \o Ascending(S \ {m})

Naming(s) ==
  s.EvictList \o
    Ascending({w \in DOMAIN s.node : \A i \in 1..Len(s.EvictList) : s.EvictList[i] # w})

Rename(naming, order) == [i \in 1..Len(order) |-> Pos(naming, order[i])]

Install(s) ==
  LET naming == Naming(s)
  IN /\ Bucket' = [i \in DOMAIN s.Bucket |-> Rename(naming, s.Bucket[i])]
     /\ node' = [i \in 1..Len(naming) |-> s.node[naming[i]]]
     /\ EvictList' = Rename(naming, s.EvictList)
     /\ Length' = s.Length
     /\ Cost' = s.Cost

\* The store s under the names Install gives its nodes.
Canon(s) ==
  LET naming == Naming(s)
  IN [Bucket |-> [i \in DOMAIN s.Bucket |-> Rename(naming, s.Bucket[i])],
      node |-> [i \in 1..Len(naming) |-> s.node[naming[i]]],
      EvictList |-> Rename(naming, s.EvictList),
      Length |-> s.Length, Cost |-> s.Cost]

\* The name Install gives the node h of the store s (nil if s lacks it).
NewHandle(s, h) == IF Pos(Naming(s), h) = 0 THEN Nil ELSE Pos(Naming(s), h)

\* ------------------------------------------------------------------- node
IsValid(n) == n.Expiration = 0 \/ n.Expiration > now

TTL(n) == IF n.Expiration = 0 THEN 0 ELSE n.Expiration - now

NodeCost(n) == Len(n.Key) + Len(n.Value)

\* Expiration written by insert, Set and UpdateInPlace.
ExpirationFor(ttl) == IF ttl # 0 THEN now + ttl ELSE 0

\* The zero-valued sentinel embedded in the store.
SentinelNode == [Hash |-> 0, Key |-> <<>>, Value |-> <<>>, Expiration |-> 0, Access |-> 0]

Field(nd, x) == IF x = Sentinel THEN SentinelNode ELSE nd[x]

\* ---------------------------------------------------- eviction list links
EvictPrev(L, x) ==
  IF x = Sentinel THEN (IF L = <<>> THEN Sentinel ELSE L[Len(L)])
  ELSE IF Pos(L, x) = 1 THEN Sentinel ELSE L[Pos(L, x) - 1]

EvictNext(L, x) ==
  IF x = Sentinel THEN (IF L = <<>> THEN Sentinel ELSE L[1])
  ELSE IF Pos(L, x) = Len(L) THEN Sentinel ELSE L[Pos(L, x) + 1]

UnlinkEvict(L, n) == Remove(L, n)

pushEvict(L, n) == <<n>> \o L

\* Unlink n and splice it in immediately after v (v may be the sentinel).
MoveAfter(L, n, v) ==
  LET L1 == UnlinkEvict(L, n)
      i == IF v = Sentinel THEN 0 ELSE Pos(L1, v)
  IN SubSeq(L1, 1, i) \o <<n>> \o SubSeq(L1, i + 1, Len(L1))

\* ----------------------------------------------------------------- policy
\* A hook takes the node fields and the list and returns both.
PL(nd, L) == [nd |-> nd, L |-> L]

fifoOnInsert(nd, L, n) == PL(nd, pushEvict(L, n))
\* fifoPolicy.OnAccess moving the node to the front.
fifoOnAccess_MoveToFront(nd, L, n) == PL(nd, pushEvict(UnlinkEvict(L, n), n))

fifoOnAccess(nd, L, n) == PL(nd, L)
fifoOnUpdate(nd, L, n) == PL(nd, L)
\* fifoPolicy.Evict that ignores ShouldEvict.
fifoEvict_Always(nd, L, ShouldEvict) ==
  IF EvictPrev(L, Sentinel) # Sentinel THEN EvictPrev(L, Sentinel) ELSE Nil

fifoEvict(nd, L, ShouldEvict) ==
  IF ShouldEvict /\ EvictPrev(L, Sentinel) # Sentinel
  THEN EvictPrev(L, Sentinel) ELSE Nil

lruOnInsert(nd, L, n) == PL(nd, pushEvict(L, n))
\* lruPolicy.OnAccess leaving the list alone.
lruOnAccess_Noop(nd, L, n) == PL(nd, L)

lruOnAccess(nd, L, n) == PL(nd, pushEvict(UnlinkEvict(L, n), n))
lruOnUpdate(nd, L, n) == lruOnAccess(nd, L, n)
lruEvict(nd, L) ==
  IF EvictPrev(L, Sentinel) # Sentinel THEN EvictPrev(L, Sentinel) ELSE Nil

lfuOnInsert(nd, L, n) == PL(nd, pushEvict(L, n))

RECURSIVE lfuWalk(_, _, _, _)
lfuWalk(nd, L, n, v) ==
  IF EvictPrev(L, v) = Sentinel THEN MoveAfter(L, n, Sentinel)
  ELSE IF Field(nd, v).Access <= nd[n].Access THEN MoveAfter(L, n, v)
  ELSE lfuWalk(nd, L, n, EvictPrev(L, v))

lfuOnAccess(nd, L, n) ==
  LET nd1 == [nd EXCEPT ![n].Access = @ + 1]
  IN PL(nd1, lfuWalk(nd1, L, n, EvictPrev(L, n)))

\* OnUpdate repositioning the node without counting an access.
lfuOnUpdate_Reposition(nd, L, n) ==
  PL(nd, lfuWalk(nd, L, n, EvictPrev(L, n)))

lfuOnUpdate(nd, L, n) == lfuOnAccess(nd, L, n)

lfuEvict(nd, L) ==
  IF EvictPrev(L, Sentinel) # Sentinel THEN EvictPrev(L, Sentinel) ELSE Nil

\* Second loop of ltrPolicy.update: forward from n.EvictNext.
RECURSIVE ltrWalkNext(_, _, _, _)
ltrWalkNext(nd, L, n, v) ==
  IF EvictNext(L, v) = Sentinel THEN L
  ELSE IF TTL(Field(nd, v)) = 0 THEN ltrWalkNext(nd, L, n, EvictNext(L, v))
  ELSE IF TTL(Field(nd, v)) > TTL(nd[n]) THEN MoveAfter(L, n, v)
  ELSE ltrWalkNext(nd, L, n, EvictNext(L, v))

\* First loop of ltrPolicy.update: backward from n.EvictPrev.
RECURSIVE ltrWalkPrev(_, _, _, _)
ltrWalkPrev(nd, L, n, v) ==
  IF EvictPrev(L, v) = Sentinel THEN ltrWalkNext(nd, L, n, EvictNext(L, n))
  ELSE IF TTL(Field(nd, v)) = 0 THEN ltrWalkPrev(nd, L, n, EvictPrev(L, v))
  ELSE IF TTL(Field(nd, v)) < TTL(nd[n]) THEN MoveAfter(L, n, v)
  ELSE ltrWalkPrev(nd, L, n, EvictPrev(L, v))

ltrUpdate(nd, L, n) ==
  IF TTL(nd[n]) = 0 THEN L ELSE ltrWalkPrev(nd, L, n, EvictPrev(L, n))

ltrOnInsert(nd, L, n) == PL(nd, ltrUpdate(nd, pushEvict(L, n), n))
ltrOnAccess(nd, L, n) == PL(nd, L)
ltrOnUpdate(nd, L, n) == PL(nd, ltrUpdate(nd, L, n))
\* ltrPolicy.Evict that returns the tail whatever its ttl.
ltrEvict_AnyTail(nd, L, EvictZero) ==
  IF EvictPrev(L, Sentinel) # Sentinel THEN EvictPrev(L, Sentinel) ELSE Nil

ltrEvict(nd, L, EvictZero) ==
  IF /\ EvictPrev(L, Sentinel) # Sentinel
     /\ (TTL(nd[EvictPrev(L, Sentinel)]) # 0 \/ EvictZero)
  THEN EvictPrev(L, Sentinel) ELSE Nil

\* The strategy objects SetPolicy builds: None is FIFO with ShouldEvict
\* false, LTR is built with EvictZero true.
OnInsert(p, nd, L, n) ==
  CASE p = PolicyLRU -> lruOnInsert(nd, L, n)
    [] p = PolicyLFU -> lfuOnInsert(nd, L, n)
    [] p = PolicyLTR -> ltrOnInsert(nd, L, n)
    [] OTHER -> fifoOnInsert(nd, L, n)

OnAccess(p, nd, L, n) ==
  CASE p = PolicyLRU -> lruOnAccess(nd, L, n)
    [] p = PolicyLFU -> lfuOnAccess(nd, L, n)
    [] p = PolicyLTR -> ltrOnAccess(nd, L, n)
    [] OTHER -> fifoOnAccess(nd, L, n)

OnUpdate(p, nd, L, n) ==
  CASE p = PolicyLRU -> lruOnUpdate(nd, L, n)
    [] p = PolicyLFU -> lfuOnUpdate(nd, L, n)
    [] p = PolicyLTR -> ltrOnUpdate(nd, L, n)
    [] OTHER -> fifoOnUpdate(nd, L, n)

PolicyEvict(p, nd, L) ==
  CASE p = PolicyLRU -> lruEvict(nd, L)
    [] p = PolicyLFU -> lfuEvict(nd, L)
    [] p = PolicyLTR -> ltrEvict(nd, L, TRUE)
    [] p = PolicyFIFO -> fifoEvict(nd, L, TRUE)
    [] OTHER -> fifoEvict(nd, L, FALSE)


\* ------------------------------------------------------------------ store
EmptyBuckets(n) == [i \in 0..(n - 1) |-> <<>>]

Capacity(s) == Cardinality(DOMAIN s.Bucket)

\* store.Clear: fresh buckets, zero counters, self-looped sentinel.
ClearStore ==
  [Bucket |-> EmptyBuckets(initialBucketSize), node |-> <<>>,
   EvictList |-> <<>>, Length |-> 0, Cost |-> 0]

lookupIdx(s, key) == Mod64(HashOf(key), Capacity(s))

RECURSIVE lookupFrom(_, _, _, _)
lookupFrom(nd, chain, key, i) ==
  IF i > Len(chain) THEN Nil
  ELSE IF nd[chain[i]].Key = key THEN chain[i]
  ELSE lookupFrom(nd, chain, key, i + 1)

\* lookup that inspects only the head of the bucket chain.
lookup_HeadOnly(s, key) ==
  LET chain == s.Bucket[lookupIdx(s, key)]
  IN IF chain # <<>> /\ s.node[chain[1]].Key = key THEN chain[1] ELSE Nil

\* The first node of the key's bucket chain that carries the key, or nil.
lookup(s, key) == lookupFrom(s.node, s.Bucket[lookupIdx(s, key)], key, 1)

\* Rehashing with the index taken modulo the old capacity.
RECURSIVE RehashChain_OldIndex(_, _, _, _)
RehashChain_OldIndex(nd, bucket, order, j) ==
  IF j > Len(order) THEN bucket
  ELSE LET v == order[j]
           idx == Mod64(nd[v].Hash, Cardinality(DOMAIN bucket) \div 2)
       IN RehashChain_OldIndex(nd, [bucket EXCEPT ![idx] = <<v>> \o @], order,
                               j + 1)

\* Push every node of order[j..] at the front of its new bucket.
RECURSIVE RehashChain(_, _, _, _)
RehashChain(nd, bucket, order, j) ==
  IF j > Len(order) THEN bucket
  ELSE LET v == order[j]
           idx == Mod64(nd[v].Hash, Cardinality(DOMAIN bucket))
       IN RehashChain(nd, [bucket EXCEPT ![idx] = <<v>> \o @], order, j + 1)

RECURSIVE ResizeFrom(_, _, _, _)
ResizeFrom(nd, old, bucket, i) ==
  IF i >= Cardinality(DOMAIN old) THEN bucket
  ELSE ResizeFrom(nd, old, RehashChain(nd, bucket, old[i], 1), i + 1)

Resize(s) ==
  [s EXCEPT !.Bucket =
     ResizeFrom(s.node, s.Bucket, EmptyBuckets(2 * Capacity(s)), 0)]

\* The handle of a freshly allocated node.
NewNode(s) ==
  CHOOSE v \in 1..(Cardinality(DOMAIN s.node) + 1) :
    /\ v \notin DOMAIN s.node
    /\ \A w \in 1..(v - 1) : w \in DOMAIN s.node

UnlinkHash(bucket, v) == [i \in DOMAIN bucket |-> Remove(bucket[i], v)]

\* deleteNode that forgets to subtract the node's cost.
deleteNode_KeepCost(s, v) ==
  [Bucket |-> UnlinkHash(s.Bucket, v),
   node |-> [w \in DOMAIN s.node \ {v} |-> s.node[w]],
   EvictList |-> UnlinkEvict(s.EvictList, v),
   Length |-> s.Length - 1,
   Cost |-> s.Cost]

deleteNode(s, v) ==
  [Bucket |-> UnlinkHash(s.Bucket, v),
   node |-> [w \in DOMAIN s.node \ {v} |-> s.node[w]],
   EvictList |-> UnlinkEvict(s.EvictList, v),
   Length |-> s.Length - 1,
   Cost |-> s.Cost - NodeCost(s.node[v])]

insert(s, key, value, ttl) ==
  LET s1 == IF s.Length * loadFactorDen > Capacity(s) * loadFactorNum
            THEN Resize(s) ELSE s
      idx == lookupIdx(s1, key)
      v == NewNode(s1)
      n == [Hash |-> HashOf(key), Key |-> key, Value |-> value,
            Expiration |-> ExpirationFor(ttl), Access |-> 0]
      nd == [w \in DOMAIN s1.node \cup {v} |->
               IF w = v THEN n ELSE s1.node[w]]
      r == OnInsert(Policy, nd, s1.EvictList, v)
  IN [Bucket |-> [s1.Bucket EXCEPT ![idx] = <<v>> \o @],
      node |-> r.nd,
      EvictList |-> r.L,
      Length |-> s1.Length + 1,
      Cost |-> s1.Cost + NodeCost(n)]

\* The in-place path that keeps the old expiration when ttl is zero.
replace_KeepOnZero(s, v, value, ttl) ==
  LET cost == NodeCost(s.node[v])
      nd == [s.node EXCEPT ![v].Value = value,
                           ![v].Expiration = IF ttl # 0 THEN now + ttl ELSE @]
      r == OnUpdate(Policy, nd, s.EvictList, v)
  IN [s EXCEPT !.node = r.nd,
               !.EvictList = r.L,
               !.Cost = s.Cost + NodeCost(nd[v]) - cost]

\* The in-place path of Set and UpdateInPlace on a linked node v.
replace(s, v, value, ttl) ==
  LET cost == NodeCost(s.node[v])
      nd == [s.node EXCEPT ![v].Value = value,
                           ![v].Expiration = ExpirationFor(ttl)]
      r == OnUpdate(Policy, nd, s.EvictList, v)
  IN [s EXCEPT !.node = r.nd,
               !.EvictList = r.L,
               !.Cost = s.Cost + NodeCost(nd[v]) - cost]

storeSet(s, key, value, ttl) ==
  LET v == lookup(s, key)
  IN IF v # Nil THEN replace(s, v, value, ttl) ELSE insert(s, key, value, ttl)

\* Get that unlinks the expired node it finds.
storeGet_Lazy(s, key) ==
  LET v == lookup(s, key)
  IN IF v # Nil /\ IsValid(s.node[v])
     THEN LET r == OnAccess(Policy, s.node, s.EvictList, v)
          IN [s EXCEPT !.node = r.nd, !.EvictList = r.L]
     ELSE IF v # Nil THEN deleteNode(s, v) ELSE s

\* Get: the store after the call (only the policy hook changes it).
storeGet(s, key) ==
  LET v == lookup(s, key)
  IN IF v # Nil /\ IsValid(s.node[v])
     THEN LET r == OnAccess(Policy, s.node, s.EvictList, v)
          IN [s EXCEPT !.node = r.nd, !.EvictList = r.L]
     ELSE s

\* Get: the returned triple.
getResult(s, key) ==
  LET v == lookup(s, key)
  IN IF v # Nil /\ IsValid(s.node[v])
     THEN [found |-> TRUE, value |-> s.node[v].Value, ttl |-> TTL(s.node[v])]
     ELSE [found |-> FALSE, value |-> <<>>, ttl |-> 0]

\* Delete that treats an expired node as missing.
storeDelete_ValidOnly(s, key) ==
  LET v == lookup(s, key)
  IN IF v # Nil /\ IsValid(s.node[v]) THEN deleteNode(s, v) ELSE s

storeDelete(s, key) ==
  LET v == lookup(s, key)
  IN IF v # Nil THEN deleteNode(s, v) ELSE s

\* Cleanup whose walk stops before the last node of the list.
RECURSIVE cleanupFrom_SkipTail(_, _, _)
cleanupFrom_SkipTail(s, order, i) ==
  IF i >= Len(order) THEN s
  ELSE cleanupFrom_SkipTail(IF IsValid(s.node[order[i]]) THEN s
                            ELSE deleteNode(s, order[i]), order, i + 1)

\* Cleanup: one pass over the eviction list, deleting every invalid node.
RECURSIVE cleanupFrom(_, _, _)
cleanupFrom(s, order, i) ==
  IF i > Len(order) THEN s
  ELSE cleanupFrom(IF IsValid(s.node[order[i]]) THEN s
                   ELSE deleteNode(s, order[i]), order, i + 1)

storeCleanup(s) == cleanupFrom(s, s.EvictList, 1)

\* The eviction loop with the test MaxCost <= Cost.
RECURSIVE evictLoop_AtBound(_, _)
evictLoop_AtBound(s, trace) ==
  IF ~(MaxCost <= s.Cost) THEN [s |-> s, trace |-> trace]
  ELSE LET n == PolicyEvict(Policy, s.node, s.EvictList)
       IN IF n = Nil THEN [s |-> s, trace |-> trace]
          ELSE evictLoop_AtBound(deleteNode(s, n), Append(trace, s.Cost))

\* Evict: the loop; trace collects the Cost seen before each deletion.
RECURSIVE evictLoop(_, _)
evictLoop(s, trace) ==
  IF ~(MaxCost < s.Cost) THEN [s |-> s, trace |-> trace]
  ELSE LET n == PolicyEvict(Policy, s.node, s.EvictList)
       IN IF n = Nil THEN [s |-> s, trace |-> trace]
          ELSE evictLoop(deleteNode(s, n), Append(trace, s.Cost))

storeEvict(s) ==
  IF MaxCost = 0 THEN [s |-> s, trace |-> <<>>] ELSE evictLoop(s, <<>>)


\* --------------------------------------------------------- snapshot codec
\* The clock counts ticks, TicksPerSecond to the second, and starts one
\* second before the Unix epoch, so that the epoch is a tick of its own;
\* expiration 0 is Go's zero time.Time, which lies before every tick.
TicksPerSecond == 2

\* t.Unix(): the whole seconds since the epoch, the fraction dropped.
Unix(t) == t \div TicksPerSecond - 1

\* time.Unix(sec, 0)
TimeUnix(sec) == (sec + 1) * TicksPerSecond

\* uint64(time.Time{}.Unix()), i.e. -62135596800 as 8 little-endian bytes.
ZeroTimeBytes == <<0, 9, 110, 136, 241, 255, 255, 255>>

RECURSIVE LittleEndian(_, _)
LittleEndian(val, n) ==
  IF n = 0 THEN <<>> ELSE <<val % 256>> \o LittleEndian(val \div 256, n - 1)

RECURSIVE Uint64(_)
Uint64(buf) == IF buf = <<>> THEN 0 ELSE buf[1] + 256 * Uint64(Tail(buf))

EncodeUint64(val) == LittleEndian(val, 8)

\* uint64(val.Unix()) with 0 written as the field.
EncodeTime_ZeroAsZero(val) ==
  IF val = 0 THEN EncodeUint64(0) ELSE EncodeUint64(Unix(val))

\* uint64(val.Unix())
EncodeTime(val) ==
  IF val = 0 THEN ZeroTimeBytes ELSE EncodeUint64(Unix(val))

EncodeBytes(val) == EncodeUint64(Len(val)) \o val

EncodeNode(n) ==
  n.Hash \o EncodeTime(n.Expiration) \o EncodeUint64(n.Access)
    \o EncodeBytes(n.Key) \o EncodeBytes(n.Value)

RECURSIVE EncodeNodesFrom(_, _, _)
EncodeNodesFrom(nd, order, i) ==
  IF i > Len(order) THEN <<>>
  ELSE EncodeNode(nd[order[i]]) \o EncodeNodesFrom(nd, order, i + 1)

\* Header, then the nodes from the front of the eviction list to its tail.
EncodeStore(s, maxCost, policy) ==
  EncodeUint64(maxCost) \o EncodeUint64(policy) \o EncodeUint64(s.Length)
    \o EncodeNodesFrom(s.node, s.EvictList, 1)

\* A decoder result: the value read and the offset of the next byte.
DecodeUint64(data, p) ==
  [val |-> Uint64(SubSeq(data, p, p + 7)), p |-> p + 8]

\* time.Unix(int64(ts), 0); second -62135596800 is the zero time.Time.
DecodeTime(data, p) ==
  [val |-> IF SubSeq(data, p, p + 7) = ZeroTimeBytes THEN 0
           ELSE TimeUnix(Uint64(SubSeq(data, p, p + 7))),
   p |-> p + 8]

DecodeBytes(data, p) ==
  LET lenVal == DecodeUint64(data, p)
  IN [val |-> SubSeq(data, lenVal.p, lenVal.p + lenVal.val - 1),
      p |-> lenVal.p + lenVal.val]

DecodeNodes(data, p) ==
  LET expiration == DecodeTime(data, p + 8)
      access == DecodeUint64(data, expiration.p)
      key == DecodeBytes(data, access.p)
      value == DecodeBytes(data, key.p)
  IN [val |-> [Hash |-> SubSeq(data, p, p + 7), Key |-> key.val,
               Value |-> value.val, Expiration |-> expiration.val,
               Access |-> access.val],
      p |-> value.p]

\* The capacity DecodeStore allocates: 128 doubled until it is >= length.
RECURSIVE LoadCapacity(_, _)
LoadCapacity(k, length) ==
  IF k < length THEN LoadCapacity(2 * k, length) ELSE k

\* DecodeStore linking the node at the front of the eviction list.
linkLoaded_Front(s, n) ==
  LET v == NewNode(s)
      idx == Mod64(n.Hash, Capacity(s))
  IN [Bucket |-> [s.Bucket EXCEPT ![idx] = <<v>> \o @],
      node |-> [w \in DOMAIN s.node \cup {v} |-> IF w = v THEN n ELSE s.node[w]],
      EvictList |-> <<v>> \o s.EvictList,
      Length |-> s.Length,
      Cost |-> s.Cost + Len(n.Key) + Len(n.Value)]

\* One round of DecodeStore's loop: n goes to the front of its bucket chain
\* and to the tail of the eviction list, no policy hook is called.
linkLoaded(s, n) ==
  LET v == NewNode(s)
      idx == Mod64(n.Hash, Capacity(s))
  IN [Bucket |-> [s.Bucket EXCEPT ![idx] = <<v>> \o @],
      node |-> [w \in DOMAIN s.node \cup {v} |-> IF w = v THEN n ELSE s.node[w]],
      EvictList |-> Append(s.EvictList, v),
      Length |-> s.Length,
      Cost |-> s.Cost + Len(n.Key) + Len(n.Value)]

RECURSIVE DecodeNodesInto(_, _, _, _)
DecodeNodesInto(s, data, p, k) ==
  IF k = 0 THEN s
  ELSE LET r == DecodeNodes(data, p)
       IN DecodeNodesInto(linkLoaded(s, r.val), data, r.p, k - 1)

\* DecodeStore that reads the header's MaxCost and policy and keeps the
\* configured ones.
DecodeStore_KeepConfig(s, data) ==
  LET length == DecodeUint64(data, 17)
      s1 == [s EXCEPT !.Length = length.val,
                      !.Bucket = EmptyBuckets(LoadCapacity(128, length.val))]
  IN [MaxCost |-> MaxCost, Policy |-> Policy,
      s |-> DecodeNodesInto(s1, data, length.p, length.val)]

\* DecodeStore into the store s: the header fields and the store read.
DecodeStore(s, data) ==
  LET maxCost == DecodeUint64(data, 1)
      policy == DecodeUint64(data, maxCost.p)
      length == DecodeUint64(data, policy.p)
      s1 == [s EXCEPT !.Length = length.val,
                      !.Bucket = EmptyBuckets(LoadCapacity(128, length.val))]
  IN [MaxCost |-> maxCost.val, Policy |-> policy.val,
      s |-> DecodeNodesInto(s1, data, length.p, length.val)]

\* ------------------------------------------------------- history variables
\* The node an operation linked, first in the order it is given.
Linked(s) == DOMAIN s.node \ DOMAIN node

NewFirst(s, order) ==
  LET kept == SelectSeq(order, LAMBDA w : w \in DOMAIN s.node)
  IN IF Linked(s) = {} THEN kept ELSE <<CHOOSE w \in Linked(s) : TRUE>> \o kept

KeysOf(nd) == {nd[w].Key : w \in DOMAIN nd}

\* s is the store after the operation, used the already linked node the
\* caller read or wrote (nil if none), stored the <<key, value>> written
\* (empty if none).
History(s, used, stored) ==
  /\ insOrder' = IF Policy = PolicyFIFO
                 THEN Rename(Naming(s), NewFirst(s, insOrder)) ELSE insOrder
  /\ useOrder' = IF Policy # PolicyLRU THEN useOrder
                 ELSE IF used \in DOMAIN s.node
                      THEN Rename(Naming(s),
                                  <<used>> \o Remove(NewFirst(s, useOrder), used))
                      ELSE Rename(Naming(s), NewFirst(s, useOrder))
  /\ lastValue' = [k \in KeysOf(s.node) |->
                     IF stored # <<>> /\ stored[1] = k THEN stored[2]
                     ELSE lastValue[k]]

\* ---------------------------------------------------------------- actions
\* The store after store.Init, before SetConfig.
InitStore ==
  /\ now = 1
  /\ Bucket = ClearStore.Bucket
  /\ node = ClearStore.node
  /\ EvictList = ClearStore.EvictList
  /\ Length = ClearStore.Length
  /\ Cost = ClearStore.Cost
  /\ ret = [op |-> "Init"]
  /\ ref = <<>>
  /\ insOrder = <<>>
  /\ useOrder = <<>>
  /\ lastValue = <<>>

\* An in-memory cache: no file is set.
NoFile == [set |-> FALSE, data |-> <<>>]

\* After open and start: no error, free locks, the worker spawned.
InitAround ==
  /\ err = "nil"
  /\ Lock = FreeLock
  /\ EvictLock = FreeLock
  /\ Stop = FALSE
  /\ wg = 1
  /\ CleanupTicker = NewStopped(CleanupInterval)
  /\ pc = [t \in Threads |-> IF t = Worker THEN "spawned" ELSE "idle"]
  /\ call = [t \in Threads |-> NoCall]
  /\ hist = [panicked |-> FALSE, atExit |-> <<>>, flushed |-> <<>>]

\* Init, SetConfig(WithPolicy, WithMaxCost), start: a freshly opened
\* in-memory cache.
Init ==
  /\ InitStore
  /\ InitAround
  /\ MaxCost \in MaxCosts
  /\ Policy \in Policies
  /\ SnapshotTicker = NewStopped(0)
  /\ File = NoFile

SetBody(key, value, ttl) ==
  LET s == storeSet(Cur, key, value, ttl)
  IN /\ Install(s)
     /\ ret' = [op |-> "Set", key |-> key]
     /\ History(s, lookup(Cur, key), <<key, value>>)
     /\ UNCHANGED <<cacheVars, now, MaxCost, Policy>>

Set(key, value, ttl) == SetBody(key, value, ttl) /\ UNCHANGED ref

\* Set, keeping what the caller passed and whether lookup found an expired
\* node.
SetCall(key, value, ttl) ==
  LET s == storeSet(Cur, key, value, ttl)
      v == lookup(Cur, key)
  IN /\ Install(s)
     /\ ret' = [op |-> "Set", key |-> key, value |-> value, ttl |-> ttl,
                expired |-> v # Nil /\ ~IsValid(node[v])]
     /\ History(s, v, <<key, value>>)
     /\ UNCHANGED <<cacheVars, now, MaxCost, Policy, ref>>

GetBody(key) ==
  LET s == storeGet(Cur, key)
      r == getResult(Cur, key)
  IN /\ Install(s)
     /\ ret' = [op |-> "Get", key |-> key, found |-> r.found,
                value |-> r.value, ttl |-> r.ttl]
     /\ History(s, IF r.found THEN lookup(Cur, key) ELSE Nil, <<>>)
     /\ UNCHANGED <<cacheVars, now, MaxCost, Policy>>

Get(key) == GetBody(key) /\ UNCHANGED ref

DeleteBody(key) ==
  LET s == storeDelete(Cur, key)
  IN /\ Install(s)
     /\ ret' = [op |-> "Delete", key |-> key, found |-> lookup(Cur, key) # Nil]
     /\ History(s, Nil, <<>>)
     /\ UNCHANGED <<cacheVars, now, MaxCost, Policy>>

Delete(key) == DeleteBody(key) /\ UNCHANGED ref

\* UpdateInPlace that writes what processFunc returned before it looks at
\* the error.
storeUpdateInPlace_WriteFirst(s, key, result, ttl) ==
  LET v == lookup(s, key)
  IN IF v = Nil
     THEN [s |-> s, err |-> ErrKeyNotFound, called |-> FALSE, arg |-> <<>>,
           v |-> Nil]
     ELSE IF ~IsValid(s.node[v])
     THEN [s |-> deleteNode(s, v), err |-> ErrKeyNotFound, called |-> FALSE,
           arg |-> <<>>, v |-> Nil]
     ELSE IF ~result.ok
     THEN [s |-> replace(s, v, result.value, ttl), err |-> CallbackErr,
           called |-> TRUE, arg |-> s.node[v].Value, v |-> Nil]
     ELSE [s |-> replace(s, v, result.value, ttl), err |-> "nil",
           called |-> TRUE, arg |-> s.node[v].Value, v |-> v]

\* UpdateInPlace on the store s; result is what processFunc returns for
\* the value it is given. called tells whether processFunc ran, arg is the
\* value it was given, v the node written (nil if none).
storeUpdateInPlace(s, key, result, ttl) ==
  LET v == lookup(s, key)
  IN IF v = Nil
     THEN [s |-> s, err |-> ErrKeyNotFound, called |-> FALSE, arg |-> <<>>,
           v |-> Nil]
     ELSE IF ~IsValid(s.node[v])
     THEN [s |-> deleteNode(s, v), err |-> ErrKeyNotFound, called |-> FALSE,
           arg |-> <<>>, v |-> Nil]
     ELSE IF ~result.ok
     THEN [s |-> s, err |-> CallbackErr, called |-> TRUE,
           arg |-> s.node[v].Value, v |-> Nil]
     ELSE [s |-> replace(s, v, result.value, ttl), err |-> "nil",
           called |-> TRUE, arg |-> s.node[v].Value, v |-> v]

UpdateInPlace(key, result, ttl) ==
  LET r == storeUpdateInPlace(Cur, key, result, ttl)
  IN /\ Install(r.s)
     /\ ret' = [op |-> "UpdateInPlace", key |-> key, err |-> r.err]
     /\ History(r.s, r.v, IF r.err = "nil" THEN <<key, result.value>> ELSE <<>>)
     /\ UNCHANGED <<cacheVars, now, MaxCost, Policy, ref>>

\* UpdateInPlace, keeping what the caller passed and what processFunc saw.
UpdateInPlaceCall(key, result, ttl) ==
  LET r == storeUpdateInPlace(Cur, key, result, ttl)
  IN /\ Install(r.s)
     /\ ret' = [op |-> "UpdateInPlace", key |-> key, err |-> r.err,
                called |-> r.called, arg |-> r.arg, result |-> result,
                ttl |-> ttl]
     /\ History(r.s, r.v, IF r.err = "nil" THEN <<key, result.value>> ELSE <<>>)
     /\ UNCHANGED <<cacheVars, now, MaxCost, Policy, ref>>

\* result is what factory returns.
Memorize(key, result, ttl) ==
  LET v == lookup(Cur, key)
      hit == v # Nil /\ IsValid(node[v])
      s == IF hit
           THEN LET r == OnAccess(Policy, node, EvictList, v)
                IN [Cur EXCEPT !.node = r.nd, !.EvictList = r.L]
           ELSE IF ~result.ok THEN Cur
           ELSE insert(Cur, key, result.value, ttl)
  IN /\ Install(s)
     /\ ret' = [op |-> "Memorize", key |-> key, hit |-> hit,
                value |-> IF hit THEN node[v].Value ELSE result.value,
                err |-> IF ~hit /\ ~result.ok THEN CallbackErr ELSE "nil"]
     /\ History(s, IF hit THEN v ELSE Nil,
                IF ~hit /\ result.ok THEN <<key, result.value>> ELSE <<>>)
     /\ UNCHANGED <<cacheVars, now, MaxCost, Policy, ref>>

Cleanup ==
  LET s == storeCleanup(Cur)
  IN /\ Install(s)
     /\ ret' = [op |-> "Cleanup", removed |-> Length - s.Length]
     /\ History(s, Nil, <<>>)
     /\ UNCHANGED <<cacheVars, now, MaxCost, Policy, ref>>

Evict ==
  LET r == storeEvict(Cur)
  IN /\ Install(r.s)
     /\ ret' = [op |-> "Evict", trace |-> r.trace]
     /\ History(r.s, Nil, <<>>)
     /\ UNCHANGED <<cacheVars, now, MaxCost, Policy, ref>>

\* ltrPolicy.Evict called on a policy object built with EvictZero false,
\* as the policy tests build it; the list is left alone.
ltrEvictCall ==
  /\ ret' = [op |-> "ltrEvict", victim |-> ltrEvict(node, EvictList, FALSE)]
  /\ UNCHANGED <<cacheVars, now, Bucket, node, EvictList, Length, Cost,
                 MaxCost, Policy, ref, insOrder, useOrder, lastValue>>

Clear ==
  /\ Install(ClearStore)
  /\ ret' = [op |-> "Clear"]
  /\ History(ClearStore, Nil, <<>>)
  /\ UNCHANGED <<cacheVars, now, MaxCost, Policy, ref>>

\* Snapshot into a buffer, then LoadSnapshot of the buffer into a freshly
\* initialised store, which replaces the store; want is what was written.
SnapshotLoad ==
  LET data == EncodeStore(Cur, MaxCost, Policy)
      r == DecodeStore(ClearStore, data)
  IN /\ Install(r.s)
     /\ MaxCost' = r.MaxCost
     /\ Policy' = r.Policy
     /\ ret' = [op |-> "Load",
                want |-> [MaxCost |-> MaxCost, Policy |-> Policy,
                          Length |-> Length, Cost |-> Cost,
                          nodes |-> NodesInOrder]]
     /\ History(r.s, Nil, <<>>)
     /\ UNCHANGED <<cacheVars, now, ref>>

\* Time passes between two calls.
Tick ==
  /\ now' = now + 1
  /\ ret' = [op |-> "Tick"]
  /\ UNCHANGED <<cacheVars, Bucket, node, EvictList, Length, Cost, MaxCost,
                 Policy, ref, insOrder, useOrder, lastValue>>

\* ------------------------------------------------------------ cache calls
\* The store and its history, left alone by a call that returns early.
storeVars == <<Bucket, node, EvictList, Length, Cost, MaxCost, Policy,
               insOrder, useOrder, lastValue>>

\* The early return on a latent error.
latentError(op, key) ==
  /\ ret' = [op |-> op, key |-> key, err |-> err]
  /\ UNCHANGED <<storeVars, cacheVars, now, ref>>

cacheSet(key, value, ttl) ==
  IF err # "nil" THEN latentError("Set", key)
  ELSE LET s == storeSet(Cur, key, value, ttl)
       IN /\ Install(s)
          /\ ret' = [op |-> "Set", key |-> key, err |-> "nil"]
          /\ History(s, lookup(Cur, key), <<key, value>>)
          /\ UNCHANGED <<cacheVars, now, MaxCost, Policy, ref>>

cacheGetValue(key) ==
  IF err # "nil" THEN latentError("Get", key)
  ELSE LET s == storeGet(Cur, key)
           r == getResult(Cur, key)
       IN /\ Install(s)
          /\ ret' = [op |-> "Get", key |-> key, value |-> r.value,
                     ttl |-> IF r.found THEN r.ttl ELSE 0,
                     err |-> IF r.found THEN "nil" ELSE ErrKeyNotFound]
          /\ History(s, IF r.found THEN lookup(Cur, key) ELSE Nil, <<>>)
          /\ UNCHANGED <<cacheVars, now, MaxCost, Policy, ref>>

cacheDelete(key) ==
  LET s == storeDelete(Cur, key)
  IN /\ Install(s)
     /\ ret' = [op |-> "Delete", key |-> key,
                err |-> IF lookup(Cur, key) # Nil THEN "nil"
                        ELSE ErrKeyNotFound]
     /\ History(s, Nil, <<>>)
     /\ UNCHANGED <<cacheVars, now, MaxCost, Policy, ref>>

\* cache.Delete, keeping what store.Delete returned and whether the node
\* it found had expired.
DeleteCall(key) ==
  LET s == storeDelete(Cur, key)
      v == lookup(Cur, key)
  IN /\ Install(s)
     /\ ret' = [op |-> "Delete", key |-> key, found |-> v # Nil,
                expired |-> v # Nil /\ ~IsValid(node[v]),
                err |-> IF v # Nil THEN "nil" ELSE ErrKeyNotFound]
     /\ History(s, Nil, <<>>)
     /\ UNCHANGED <<cacheVars, now, MaxCost, Policy, ref>>

cacheUpdateInPlace(key, result, ttl) ==
  IF err # "nil" THEN latentError("UpdateInPlace", key)
  ELSE UpdateInPlace(key, result, ttl)

cacheMemorize(key, result, ttl) ==
  IF err # "nil" THEN latentError("Memorize", key)
  ELSE Memorize(key, result, ttl)

\* Snapshot seeks to the start of the file and writes without truncating.
WriteAtStart(old, data) == data \o SubSeq(old, Len(data) + 1, Len(old))

\* The worker's snapshot tick: Flush, and a failure kept as the latent
\* error; ok tells whether the write succeeds.
snapshotTick(ok) ==
  /\ File' = IF File.set /\ ok
             THEN [File EXCEPT
                     !.data = WriteAtStart(@, EncodeStore(Cur, MaxCost, Policy))]
             ELSE File
  /\ err' = IF File.set /\ ~ok THEN SnapshotErr ELSE err
  /\ ret' = [op |-> "Flush"]
  /\ UNCHANGED <<storeVars, aroundVars, now, ref>>

\* The worker's deferred recover after a panic.
workerRecover ==
  /\ err' = PanicErr
  /\ ret' = [op |-> "recover"]
  /\ UNCHANGED <<storeVars, File, aroundVars, now, ref>>

\* ----------------------------------------------------------- user threads
\* What a call returns: Get its triple, Delete whether it found the key.
NoResult == [found |-> FALSE, value |-> <<>>, ttl |-> 0]

\* Memorize with keys from K and a factory that returns a value from V.
MemoCalls(K, V, T) ==
  {[op |-> "Memorize", key |-> k, value |-> v, ttl |-> ttl, v |-> Nil,
    result |-> [found |-> FALSE, value |-> <<>>, ttl |-> 0],
    want |-> [found |-> FALSE, value |-> <<>>, ttl |-> 0]] :
     k \in K, v \in V, ttl \in T}

\* The calls Set, Delete and Get with keys from K, values from V and ttls
\* from T, their locals unset: v is the node lookup returned, result what
\* the call returns, want what the call returns when run alone.
UserCalls(K, V, T) ==
  LET c(op, k, v, ttl) == [op |-> op, key |-> k, value |-> v, ttl |-> ttl,
                           v |-> Nil, result |-> NoResult, want |-> NoResult]
  IN {c("Set", k, v, ttl) : k \in K, v \in V, ttl \in T}
       \cup {c("Delete", k, <<>>, 0) : k \in K}
       \cup {c("Get", k, <<>>, 0) : k \in K}

\* The locals of all threads after the nodes of s were renamed; the cursor
\* of a snapshot walk may also stand at the list's sentinel.
Relocated(s) ==
  [t \in Threads |->
     IF call[t].op \in {"Set", "Delete", "Get", "Memorize", "Snapshot"}
          /\ call[t].v \notin {Nil, Sentinel}
     THEN [call[t] EXCEPT !.v = NewHandle(s, @)]
     ELSE call[t]]

\* Entry of store.Set and store.Delete (Lock) and of store.Get (RLock).
userLock(t, c) ==
  /\ pc[t] = "idle"
  /\ IF c.op = "Get"
     THEN CanRLock(Lock) /\ Lock' = DoRLock(Lock, t)
     ELSE CanLock(Lock) /\ Lock' = DoLock(Lock, t)
  /\ pc' = [pc EXCEPT ![t] = "locked"]
  /\ call' = [call EXCEPT ![t] = c]
  /\ UNCHANGED <<storeVars, err, File, EvictLock, Stop, wg, SnapshotTicker,
                 CleanupTicker, hist, now, ref, ret>>

\* s.lookup(key); Get returns at once on a missing or expired node.
userLookup(t) ==
  LET c == call[t]
      v == lookup(Cur, c.key)
      miss == c.op = "Get" /\ (v = Nil \/ ~IsValid(node[v]))
  IN /\ pc[t] = "locked"
     /\ pc' = [pc EXCEPT ![t] = IF miss THEN "unlock" ELSE "found"]
     /\ call' = [call EXCEPT ![t].v = v,
                             ![t].want = IF miss THEN getResult(Cur, c.key)
                                         ELSE @]
     /\ UNCHANGED <<storeVars, err, File, Lock, EvictLock, Stop, wg,
                    SnapshotTicker, CleanupTicker, hist, now, ref, ret>>

\* Memorize found a valid node: it calls OnAccess and returns its value.
memoHit(c) == c.v # Nil /\ IsValid(node[c.v])

\* The body after lookup: Set replaces or inserts, Delete unlinks, Get and
\* a Memorize that found a valid node call the policy's OnAccess, which
\* takes the list lock; any other Memorize inserts what factory returned.
userApply(t) ==
  LET c == call[t]
      s == CASE c.op = "Set" ->
                  IF c.v # Nil THEN replace(Cur, c.v, c.value, c.ttl)
                  ELSE insert(Cur, c.key, c.value, c.ttl)
             [] c.op = "Delete" ->
                  IF c.v # Nil THEN deleteNode(Cur, c.v) ELSE Cur
             [] c.op = "Memorize" /\ ~memoHit(c) ->
                  insert(Cur, c.key, c.value, c.ttl)
             [] OTHER ->
                  IF c.v # Nil
                  THEN LET r == OnAccess(Policy, node, EvictList, c.v)
                       IN [Cur EXCEPT !.node = r.nd, !.EvictList = r.L]
                  ELSE Cur
  IN /\ pc[t] = "found"
     /\ CanLock(EvictLock)
     /\ Install(s)
     /\ History(s, IF c.op = "Delete" \/ (c.op = "Memorize" /\ ~memoHit(c))
                   THEN Nil ELSE c.v,
                IF c.op = "Set" \/ (c.op = "Memorize" /\ ~memoHit(c))
                THEN <<c.key, c.value>> ELSE <<>>)
     /\ pc' = [pc EXCEPT ![t] = IF c.op = "Get" THEN "read" ELSE "unlock"]
     /\ call' = [Relocated(s) EXCEPT
                   ![t].result = IF c.op = "Delete"
                                 THEN [NoResult EXCEPT !.found = c.v # Nil]
                                 ELSE @,
                   ![t].want = CASE c.op = "Delete" ->
                                      [NoResult EXCEPT
                                         !.found = lookup(Cur, c.key) # Nil]
                                 [] c.op = "Get" -> getResult(Cur, c.key)
                                 [] OTHER -> @]
     /\ UNCHANGED <<MaxCost, Policy, err, File, Lock, EvictLock, Stop, wg,
                    SnapshotTicker, CleanupTicker, hist, now, ref, ret>>

\* Get reads the value and the ttl of the node it found.
userRead(t) ==
  LET c == call[t]
  IN /\ pc[t] = "read"
     /\ pc' = [pc EXCEPT ![t] = "unlock"]
     /\ call' = [call EXCEPT
                   ![t].result = IF c.v # Nil
                                 THEN [found |-> TRUE, value |-> node[c.v].Value,
                                       ttl |-> TTL(node[c.v])]
                                 ELSE [NoResult EXCEPT !.found = TRUE]]
     /\ UNCHANGED <<storeVars, err, File, Lock, EvictLock, Stop, wg,
                    SnapshotTicker, CleanupTicker, hist, now, ref, ret>>

\* The deferred Unlock or RUnlock, and the return.
userReturn(t) ==
  /\ pc[t] = "unlock"
  /\ Lock' = IF call[t].op = "Get" THEN DoRUnlock(Lock, t)
             ELSE DoUnlock(Lock, t)
  /\ pc' = [pc EXCEPT ![t] = "idle"]
  /\ call' = [call EXCEPT ![t] = NoCall]
  /\ UNCHANGED <<storeVars, err, File, EvictLock, Stop, wg, SnapshotTicker,
                 CleanupTicker, hist, now, ref, ret>>

\* Time passes while no call is in progress.
QuietTick ==
  /\ \A t \in Users : pc[t] = "idle"
  /\ pc[Worker] \notin {"inCleanup", "inEvict", "inFlush"}
  /\ Tick

\* ------------------------------------------------------ background worker
\* The worker thread moves to position p.
WorkerAt(p) == pc' = [pc EXCEPT ![Worker] = p]

\* Resume of both tickers, each followed by the defer of its Stop.
workerResume ==
  /\ pc[Worker] = "spawned"
  /\ SnapshotTicker' = TimerResume(SnapshotTicker)
  /\ CleanupTicker' = TimerResume(CleanupTicker)
  /\ WorkerAt("cleanup")
  /\ UNCHANGED <<storeVars, err, File, Lock, EvictLock, Stop, wg, call, hist,
                 now, ref, ret>>

\* Cleanup and Evict take the store lock, then the list lock.
workerLock ==
  /\ pc[Worker] \in {"cleanup", "evict"}
  /\ CanLock(Lock)
  /\ CanLock(EvictLock)
  /\ Lock' = DoLock(Lock, Worker)
  /\ EvictLock' = DoLock(EvictLock, Worker)
  /\ WorkerAt(IF pc[Worker] = "cleanup" THEN "inCleanup" ELSE "inEvict")
  /\ UNCHANGED <<storeVars, err, File, Stop, wg, SnapshotTicker, CleanupTicker,
                 call, hist, now, ref, ret>>

\* A Cleanup after which the worker goes back to its select.
workerCleanup_SkipEvict ==
  LET s == storeCleanup(Cur)
  IN /\ pc[Worker] = "inCleanup"
     /\ Install(s)
     /\ History(s, Nil, <<>>)
     /\ Lock' = DoUnlock(Lock, Worker)
     /\ EvictLock' = DoUnlock(EvictLock, Worker)
     /\ call' = Relocated(s)
     /\ WorkerAt("select")
     /\ UNCHANGED <<MaxCost, Policy, err, File, Stop, wg, SnapshotTicker,
                    CleanupTicker, hist, now, ref, ret>>

workerCleanup ==
  LET s == storeCleanup(Cur)
  IN /\ pc[Worker] = "inCleanup"
     /\ Install(s)
     /\ History(s, Nil, <<>>)
     /\ Lock' = DoUnlock(Lock, Worker)
     /\ EvictLock' = DoUnlock(EvictLock, Worker)
     /\ call' = Relocated(s)
     /\ WorkerAt("evict")
     /\ UNCHANGED <<MaxCost, Policy, err, File, Stop, wg, SnapshotTicker,
                    CleanupTicker, hist, now, ref, ret>>

workerEvict ==
  LET r == storeEvict(Cur)
  IN /\ pc[Worker] = "inEvict"
     /\ Install(r.s)
     /\ History(r.s, Nil, <<>>)
     /\ Lock' = DoUnlock(Lock, Worker)
     /\ EvictLock' = DoUnlock(EvictLock, Worker)
     /\ call' = Relocated(r.s)
     /\ WorkerAt("select")
     /\ UNCHANGED <<MaxCost, Policy, err, File, Stop, wg, SnapshotTicker,
                    CleanupTicker, hist, now, ref, ret>>

\* The select receives a tick of a running ticker.
workerTick ==
  /\ pc[Worker] = "select"
  /\ \/ SnapshotTicker.running /\ WorkerAt("flush")
     \/ CleanupTicker.running /\ WorkerAt("cleanup")
  /\ UNCHANGED <<storeVars, err, File, Lock, EvictLock, Stop, wg,
                 SnapshotTicker, CleanupTicker, call, hist, now, ref, ret>>

\* Flush returns at once without a file; Snapshot takes the store lock.
workerFlushLock ==
  /\ pc[Worker] = "flush"
  /\ IF File.set
     THEN /\ CanLock(Lock)
          /\ Lock' = DoLock(Lock, Worker)
          /\ WorkerAt("inFlush")
     ELSE /\ Lock' = Lock
          /\ WorkerAt("select")
  /\ UNCHANGED <<storeVars, err, File, EvictLock, Stop, wg, SnapshotTicker,
                 CleanupTicker, call, hist, now, ref, ret>>

\* A tick-triggered Flush whose success clears the latent error.
workerFlush_ClearOnSuccess(ok) ==
  /\ pc[Worker] = "inFlush"
  /\ File' = IF ok
             THEN [File EXCEPT
                     !.data = WriteAtStart(@, EncodeStore(Cur, MaxCost, Policy))]
             ELSE File
  /\ err' = IF ok THEN "nil" ELSE SnapshotErr
  /\ Lock' = DoUnlock(Lock, Worker)
  /\ WorkerAt("select")
  /\ UNCHANGED <<storeVars, EvictLock, Stop, wg, SnapshotTicker, CleanupTicker,
                 call, hist, now, ref, ret>>

\* The write of the snapshot; ok tells whether it succeeds.
workerFlush(ok) ==
  /\ pc[Worker] = "inFlush"
  /\ File' = IF ok
             THEN [File EXCEPT
                     !.data = WriteAtStart(@, EncodeStore(Cur, MaxCost, Policy))]
             ELSE File
  /\ err' = IF ok THEN err ELSE SnapshotErr
  /\ Lock' = DoUnlock(Lock, Worker)
  /\ WorkerAt("select")
  /\ UNCHANGED <<storeVars, EvictLock, Stop, wg, SnapshotTicker, CleanupTicker,
                 call, hist, now, ref, ret>>

\* A user thread enters Set, Delete, Get or Memorize and reaches the Lock
\* or RLock call, where it may have to wait.
userCall(t, c) ==
  /\ pc[t] = "idle"
  /\ pc' = [pc EXCEPT ![t] = "waiting"]
  /\ call' = [call EXCEPT ![t] = c]
  /\ UNCHANGED <<storeVars, err, File, Lock, EvictLock, Stop, wg,
                 SnapshotTicker, CleanupTicker, hist, now, ref, ret>>

\* The Lock or RLock call returns.
userAcquire(t) ==
  /\ pc[t] = "waiting"
  /\ IF call[t].op = "Get"
     THEN CanRLock(Lock) /\ Lock' = DoRLock(Lock, t)
     ELSE CanLock(Lock) /\ Lock' = DoLock(Lock, t)
  /\ pc' = [pc EXCEPT ![t] = "locked"]
  /\ UNCHANGED <<storeVars, err, File, EvictLock, Stop, wg, SnapshotTicker,
                 CleanupTicker, call, hist, now, ref, ret>>

\* store.Snapshot under the store lock: Seek to the start, a new buffered
\* encoder, and EncodeStore's header of MaxCost, policy and Length. v is
\* the cursor of the walk, n the number of EncodeNode calls so far.
snapshotHeader ==
  /\ pc[Worker] = "inFlush"
  /\ call' = [call EXCEPT ![Worker] =
                [op |-> "Snapshot",
                 buf |-> EncodeUint64(MaxCost) \o EncodeUint64(Policy)
                           \o EncodeUint64(Length),
                 v |-> EvictNext(EvictList, Sentinel), n |-> 0]]
  /\ WorkerAt("walk")
  /\ UNCHANGED <<storeVars, err, File, Lock, EvictLock, Stop, wg,
                 SnapshotTicker, CleanupTicker, hist, now, ref, ret>>

\* One round of EncodeStore's loop: EncodeNode(v), then v = v.EvictNext.
snapshotNode ==
  LET c == call[Worker]
  IN /\ pc[Worker] = "walk"
     /\ c.v \in DOMAIN node
     /\ call' = [call EXCEPT ![Worker].buf = @ \o EncodeNode(node[c.v]),
                             ![Worker].v = EvictNext(EvictList, c.v),
                             ![Worker].n = @ + 1]
     /\ UNCHANGED <<storeVars, err, File, Lock, EvictLock, Stop, wg,
                    SnapshotTicker, CleanupTicker, pc, hist, now, ref, ret>>

\* The walk is back at the sentinel: the deferred Flush of the encoder
\* writes the buffer, the deferred Unlock releases the store lock.
snapshotFlush ==
  LET c == call[Worker]
  IN /\ pc[Worker] = "walk"
     /\ c.v \notin DOMAIN node
     /\ File' = [File EXCEPT !.data = WriteAtStart(@, c.buf)]
     /\ Lock' = DoUnlock(Lock, Worker)
     /\ pc' = [pc EXCEPT ![Worker] = "select"]
     /\ call' = [call EXCEPT ![Worker] = NoCall]
     /\ UNCHANGED <<storeVars, err, EvictLock, Stop, wg, SnapshotTicker,
                    CleanupTicker, hist, now, ref, ret>>

\* ---------------------------------------------------------- lock requests
\* Whether the body of the call c reaches a policy hook that locks the
\* eviction list: OnInsert of every policy, OnAccess of LRU and LFU,
\* OnUpdate of LRU, LFU and LTR.
NeedsListLock(c) ==
  LET v == lookup(Cur, c.key)
      valid == v # Nil /\ IsValid(node[v])
      onAccess == Policy \in {PolicyLRU, PolicyLFU}
      onUpdate == Policy \in {PolicyLRU, PolicyLFU, PolicyLTR}
  IN CASE c.op = "Get" -> valid /\ onAccess
       [] c.op = "Set" -> v = Nil \/ onUpdate
       [] c.op = "UpdateInPlace" -> valid /\ c.result.ok /\ onUpdate
       [] c.op = "Memorize" -> IF valid THEN onAccess ELSE c.result.ok
       [] OTHER -> FALSE

\* The store after the body of the call c, the node it used and the
\* <<key, value>> it stored.
LockEffect(c) ==
  LET v == lookup(Cur, c.key)
      valid == v # Nil /\ IsValid(node[v])
      same == [s |-> Cur, used |-> Nil, stored |-> <<>>]
  IN CASE c.op = "Get" ->
            [s |-> storeGet(Cur, c.key), used |-> IF valid THEN v ELSE Nil,
             stored |-> <<>>]
       [] c.op = "Set" ->
            [s |-> storeSet(Cur, c.key, c.value, c.ttl), used |-> v,
             stored |-> <<c.key, c.value>>]
       [] c.op = "Delete" ->
            [s |-> storeDelete(Cur, c.key), used |-> Nil, stored |-> <<>>]
       [] c.op = "UpdateInPlace" ->
            LET r == storeUpdateInPlace(Cur, c.key, c.result, c.ttl)
            IN [s |-> r.s, used |-> r.v,
                stored |-> IF r.err = "nil" THEN <<c.key, c.result.value>>
                           ELSE <<>>]
       [] c.op = "Memorize" ->
            IF valid
            THEN [s |-> storeGet(Cur, c.key), used |-> v, stored |-> <<>>]
            ELSE IF ~c.result.ok THEN same
            ELSE [s |-> insert(Cur, c.key, c.result.value, c.ttl),
                  used |-> Nil, stored |-> <<c.key, c.result.value>>]
       [] c.op = "Clear" -> [same EXCEPT !.s = ClearStore]
       [] OTHER -> same

\* The body of the call of thread t, the store lock held.
lockBody(t) ==
  LET c == call[t]
      e == LockEffect(c)
  IN /\ Install(e.s)
     /\ History(e.s, e.used, e.stored)
     /\ MaxCost' = IF c.op = "SetConfig" THEN c.option.arg ELSE MaxCost
     /\ File' = IF c.op = "Flush" /\ File.set
                THEN [File EXCEPT
                        !.data = WriteAtStart(@, EncodeStore(Cur, MaxCost, Policy))]
                ELSE File
     /\ UNCHANGED <<Policy, err, Stop, wg, SnapshotTicker, CleanupTicker, call,
                    hist, now, ref, ret>>

\* A body without a locking hook runs to the deferred Unlock.
lockPlain(t) ==
  /\ pc[t] = "locked"
  /\ ~NeedsListLock(call[t])
  /\ lockBody(t)
  /\ pc' = [pc EXCEPT ![t] = "unlock"]
  /\ UNCHANGED <<Lock, EvictLock>>

\* A body with a locking hook reaches the hook's Lock call.
listWait(t) ==
  /\ pc[t] = "locked"
  /\ NeedsListLock(call[t])
  /\ pc' = [pc EXCEPT ![t] = "listWait"]
  /\ UNCHANGED <<storeVars, err, File, Lock, EvictLock, Stop, wg,
                 SnapshotTicker, CleanupTicker, call, hist, now, ref, ret>>

\* The hook's Lock call returns and the hook runs.
listAcquire(t) ==
  /\ pc[t] = "listWait"
  /\ CanLock(EvictLock)
  /\ EvictLock' = DoLock(EvictLock, t)
  /\ lockBody(t)
  /\ pc' = [pc EXCEPT ![t] = "listHeld"]
  /\ UNCHANGED Lock

\* The hook's deferred Unlock.
listRelease(t) ==
  /\ pc[t] = "listHeld"
  /\ EvictLock' = DoUnlock(EvictLock, t)
  /\ pc' = [pc EXCEPT ![t] = "unlock"]
  /\ UNCHANGED <<storeVars, err, File, Lock, Stop, wg, SnapshotTicker,
                 CleanupTicker, call, hist, now, ref, ret>>

\* The locks Cleanup and Evict take, in the order they take them.
workerOrder_ListFirst == <<"EvictLock", "Lock">>
workerOrder == <<"Lock", "EvictLock">>

\* The worker's Lock call on the lock of that name returns.
workerTake(name) ==
  IF name = "Lock"
  THEN CanLock(Lock) /\ Lock' = DoLock(Lock, Worker) /\ UNCHANGED EvictLock
  ELSE CanLock(EvictLock) /\ EvictLock' = DoLock(EvictLock, Worker)
         /\ UNCHANGED Lock

workerLockFirst ==
  /\ pc[Worker] \in {"cleanup", "evict"}
  /\ workerTake(workerOrder[1])
  /\ WorkerAt(IF pc[Worker] = "cleanup" THEN "cleanupHalf" ELSE "evictHalf")
  /\ UNCHANGED <<storeVars, err, File, Stop, wg, SnapshotTicker, CleanupTicker,
                 call, hist, now, ref, ret>>

workerLockSecond ==
  /\ pc[Worker] \in {"cleanupHalf", "evictHalf"}
  /\ workerTake(workerOrder[2])
  /\ WorkerAt(IF pc[Worker] = "cleanupHalf" THEN "inCleanup" ELSE "inEvict")
  /\ UNCHANGED <<storeVars, err, File, Stop, wg, SnapshotTicker, CleanupTicker,
                 call, hist, now, ref, ret>>

\* The deferred calls of backgroundWorker without the release of the wait
\* group.
workerDefers_NoDone(recovered) ==
  [SnapshotTicker |-> TimerStop(SnapshotTicker),
   CleanupTicker |-> TimerStop(CleanupTicker),
   err |-> IF recovered THEN PanicErr ELSE err,
   wg |-> wg]

\* The deferred calls of backgroundWorker, run when it returns and when it
\* panics: both tickers stop, a recovered panic becomes the latent error,
\* the wait group is released.
workerDefers(recovered) ==
  [SnapshotTicker |-> TimerStop(SnapshotTicker),
   CleanupTicker |-> TimerStop(CleanupTicker),
   err |-> IF recovered THEN PanicErr ELSE err,
   wg |-> wg - 1]

workerReturn(recovered) ==
  LET d == workerDefers(recovered)
  IN /\ SnapshotTicker' = d.SnapshotTicker
     /\ CleanupTicker' = d.CleanupTicker
     /\ err' = d.err
     /\ wg' = d.wg
     /\ WorkerAt("done")
     /\ hist' = [hist EXCEPT !.panicked = recovered, !.atExit = NodesInOrder]
     /\ UNCHANGED <<storeVars, File, Stop, call, now, ref, ret>>

\* The select finds the Stop channel closed.
workerStop ==
  /\ pc[Worker] = "select"
  /\ Stop
  /\ workerReturn(FALSE)
  /\ UNCHANGED <<Lock, EvictLock>>

\* A panic inside Cleanup, Evict or Snapshot, the locks held: the deferred
\* unlocks of the panicking call run, then the worker's own deferred calls.
workerPanic ==
  /\ pc[Worker] \in {"inCleanup", "inEvict", "inFlush"}
  /\ Lock' = DoUnlock(Lock, Worker)
  /\ EvictLock' = DoUnlock(EvictLock, Worker)
  /\ workerReturn(TRUE)

\* ------------------------------------------------------------------ Close
CloserAt(p) == pc' = [pc EXCEPT ![Closer] = p]

closeStop ==
  /\ pc[Closer] = "idle"
  /\ Stop' = TRUE
  /\ CloserAt("wait")
  /\ call' = [call EXCEPT ![Closer] = [op |-> "Close", err |-> "nil"]]
  /\ UNCHANGED <<storeVars, err, File, Lock, EvictLock, wg, SnapshotTicker,
                 CleanupTicker, hist, now, ref, ret>>

\* wg.Wait returns once the counter is zero.
WaitReturns_AtOnce(n) == TRUE

WaitReturns(n) == n = 0

closeWait ==
  /\ pc[Closer] = "wait"
  /\ WaitReturns(wg)
  /\ CloserAt("flush")
  /\ UNCHANGED <<storeVars, err, File, Lock, EvictLock, Stop, wg,
                 SnapshotTicker, CleanupTicker, call, hist, now, ref, ret>>

closeFlushLock ==
  /\ pc[Closer] = "flush"
  /\ IF File.set
     THEN /\ CanLock(Lock)
          /\ Lock' = DoLock(Lock, Closer)
          /\ CloserAt("inFlush")
     ELSE /\ Lock' = Lock
          /\ CloserAt("clear")
  /\ UNCHANGED <<storeVars, err, File, EvictLock, Stop, wg, SnapshotTicker,
                 CleanupTicker, call, hist, now, ref, ret>>

closeFlush(ok) ==
  /\ pc[Closer] = "inFlush"
  /\ File' = IF ok
             THEN [File EXCEPT
                     !.data = WriteAtStart(@, EncodeStore(Cur, MaxCost, Policy))]
             ELSE File
  /\ call' = [call EXCEPT ![Closer].err = IF ok THEN "nil" ELSE SnapshotErr]
  /\ hist' = [hist EXCEPT !.flushed = NodesInOrder]
  /\ Lock' = DoUnlock(Lock, Closer)
  /\ CloserAt("clear")
  /\ UNCHANGED <<storeVars, err, EvictLock, Stop, wg, SnapshotTicker,
                 CleanupTicker, now, ref, ret>>

closeClear ==
  /\ pc[Closer] = "clear"
  /\ CanLock(Lock)
  /\ Install(ClearStore)
  /\ History(ClearStore, Nil, <<>>)
  /\ CloserAt("closeFile")
  /\ UNCHANGED <<MaxCost, Policy, err, File, Lock, EvictLock, Stop, wg,
                 SnapshotTicker, CleanupTicker, call, hist, now, ref, ret>>

\* The file is closed and Close returns the error of its flush.
closeReturn ==
  /\ pc[Closer] = "closeFile"
  /\ CloserAt("closed")
  /\ ret' = [op |-> "Close", err |-> call[Closer].err]
  /\ UNCHANGED <<storeVars, err, File, Lock, EvictLock, Stop, wg,
                 SnapshotTicker, CleanupTicker, call, hist, now, ref>>

\* ------------------------------------------------------------------- open
ErrInvalidPolicy == "invalid policy"
ErrEmptyFilename == "cannot open empty filename"
OpenErr == "open error"
EOFErr == "unexpected EOF"

\* A policy type SetPolicy has no strategy for.
UnknownPolicy == PolicyLTR + 1

\* The options open is given: WithPolicy, WithMaxCost, SetSnapshotTime,
\* SetCleanupTime, each with its argument.
Options ==
  [opt : {"WithPolicy"}, arg : {PolicyLRU, UnknownPolicy}]
    \cup [opt : {"WithMaxCost"}, arg : {CostLimit}]
    \cup [opt : {"SetSnapshotTime"}, arg : {0, 1}]
    \cup [opt : {"SetCleanupTime"}, arg : {0, 1}]

\* One option applied to the configuration c; SetPolicy refuses a type it
\* does not know and leaves the policy as it was.
applyOption(c, o) ==
  CASE o.opt = "WithPolicy" ->
         IF o.arg \in Policies THEN [c EXCEPT !.Policy = o.arg]
         ELSE [c EXCEPT !.err = ErrInvalidPolicy]
    [] o.opt = "WithMaxCost" -> [c EXCEPT !.MaxCost = o.arg]
    [] o.opt = "SetSnapshotTime" ->
         [c EXCEPT !.SnapshotTicker = TimerReset(@, o.arg)]
    [] o.opt = "SetCleanupTime" ->
         [c EXCEPT !.CleanupTicker = TimerReset(@, o.arg)]

\* SetConfig: the options in order, stopping at the first error.
RECURSIVE SetConfig(_, _, _)
SetConfig(c, options, i) ==
  IF i > Len(options) \/ c.err # "nil" THEN c
  ELSE SetConfig(applyOption(c, options[i]), options, i + 1)

\* io.ReadFull of n bytes at offset p runs out of data.
Short(data, p, n) == p + n - 1 > Len(data)

\* Whether DecodeNodes fails on one of the k records starting at offset p.
RECURSIVE decodeNodesErr(_, _, _)
decodeNodesErr(data, p, k) ==
  IF k = 0 THEN FALSE
  ELSE IF Short(data, p, 32) THEN TRUE
  ELSE LET keyLen == DecodeUint64(data, p + 24).val
       IN IF Short(data, p + 32, keyLen + 8) THEN TRUE
          ELSE LET valLen == DecodeUint64(data, p + 32 + keyLen).val
                   q == p + 40 + keyLen
               IN IF Short(data, q, valLen) THEN TRUE
                  ELSE decodeNodesErr(data, q + valLen, k - 1)

\* Whether DecodeStore returns an error on data.
decodeErr(data) ==
  IF Short(data, 1, 24) THEN TRUE
  ELSE decodeNodesErr(data, 25, DecodeUint64(data, 17).val)

\* OpenRaw after open returned e: the worker is started only without an
\* error, else the zero value is returned.
openReturns_Start(e) == "start"

openReturns(e) == IF e # "nil" THEN "failed" ELSE "start"

\* The goroutine that will close the cache is the one that opens it; it
\* ends the call with the error e, or goes on to start.
openEnds(e) ==
  /\ pc' = [pc EXCEPT ![Closer] = openReturns(e)]
  /\ ret' = IF openReturns(e) = "failed"
            THEN [op |-> "Open", err |-> e, cache |-> FALSE]
            ELSE ret

\* OpenRawFile's test of the filename, store.Init (the initial state) and
\* SetConfig; an in-memory open is complete after it.
openConfig ==
  LET c == call[Closer]
      named == c.entry # "OpenRawMem" /\ c.named
      cfg == SetConfig([Policy |-> Policy, MaxCost |-> MaxCost,
                        SnapshotTicker |-> SnapshotTicker,
                        CleanupTicker |-> CleanupTicker, err |-> "nil"],
                       c.options, 1)
  IN /\ pc[Closer] = "open"
     /\ IF c.entry = "OpenRawFile" /\ ~c.named
        THEN /\ openEnds(ErrEmptyFilename)
             /\ UNCHANGED <<MaxCost, Policy, SnapshotTicker, CleanupTicker>>
        ELSE /\ Policy' = cfg.Policy
             /\ MaxCost' = cfg.MaxCost
             /\ SnapshotTicker' = cfg.SnapshotTicker
             /\ CleanupTicker' = cfg.CleanupTicker
             /\ IF cfg.err = "nil" /\ named
                THEN pc' = [pc EXCEPT ![Closer] = "file"] /\ ret' = ret
                ELSE openEnds(cfg.err)
     /\ UNCHANGED <<Bucket, node, EvictList, Length, Cost, insOrder, useOrder,
                    lastValue, err, File, Lock, EvictLock, Stop, wg, call,
                    hist, now, ref>>

\* lockedfile.OpenFile and Stat; ok tells whether both succeed.
openFile(ok) ==
  /\ pc[Closer] = "file"
  /\ IF ok
     THEN /\ pc' = [pc EXCEPT ![Closer] =
                      IF call[Closer].disk = <<>> THEN "fresh" ELSE "load"]
          /\ ret' = ret
     ELSE openEnds(OpenErr)
  /\ UNCHANGED <<storeVars, err, File, Lock, EvictLock, Stop, wg,
                 SnapshotTicker, CleanupTicker, call, hist, now, ref>>

\* An empty file: it becomes the cache's file and a snapshot is flushed
\* into it; ok tells whether the write succeeds.
openFresh(ok) ==
  /\ pc[Closer] = "fresh"
  /\ File' = [set |-> TRUE,
              data |-> IF ok THEN EncodeStore(Cur, MaxCost, Policy) ELSE <<>>]
  /\ openEnds(IF ok THEN "nil" ELSE SnapshotErr)
  /\ UNCHANGED <<storeVars, err, Lock, EvictLock, Stop, wg, SnapshotTicker,
                 CleanupTicker, call, hist, now, ref>>

\* A file with data: LoadSnapshot, then it becomes the cache's file. The
\* header's policy goes through SetPolicy, whose error DecodeStore drops.
\* The store of a failed load belongs to a cache nobody holds; it is left
\* as it was.
openLoad ==
  LET disk == call[Closer].disk
      r == DecodeStore(Cur, disk)
  IN /\ pc[Closer] = "load"
     /\ IF decodeErr(disk)
        THEN /\ openEnds(EOFErr)
             /\ UNCHANGED <<storeVars, File>>
        ELSE /\ Install(r.s)
             /\ MaxCost' = r.MaxCost
             /\ Policy' = IF r.Policy \in Policies THEN r.Policy ELSE Policy
             /\ insOrder' = IF Policy' = PolicyFIFO THEN EvictList' ELSE <<>>
             /\ useOrder' = IF Policy' = PolicyLRU THEN EvictList' ELSE <<>>
             /\ lastValue' = [k \in KeysOf(node') |->
                                node'[CHOOSE w \in DOMAIN node' : node'[w].Key = k].Value]
             /\ File' = [set |-> TRUE, data |-> disk]
             /\ openEnds("nil")
     /\ UNCHANGED <<err, Lock, EvictLock, Stop, wg, SnapshotTicker,
                    CleanupTicker, call, hist, now, ref>>

\* cache.start, and OpenRaw returns the cache.
openStart ==
  /\ pc[Closer] = "start"
  /\ Stop' = FALSE
  /\ wg' = wg + 1
  /\ pc' = [pc EXCEPT ![Closer] = "idle", ![Worker] = "spawned"]
  /\ ret' = [op |-> "Open", err |-> "nil", cache |-> TRUE]
  /\ UNCHANGED <<storeVars, err, File, Lock, EvictLock, SnapshotTicker,
                 CleanupTicker, call, hist, now, ref>>

\* SetConfig on the open cache, under the store lock.
cacheSetConfig(options) ==
  LET cfg == SetConfig([Policy |-> Policy, MaxCost |-> MaxCost,
                        SnapshotTicker |-> SnapshotTicker,
                        CleanupTicker |-> CleanupTicker, err |-> "nil"],
                       options, 1)
  IN /\ pc[Closer] = "idle"
     /\ pc[Worker] # "unborn"
     /\ CanLock(Lock)
     /\ Policy' = cfg.Policy
     /\ MaxCost' = cfg.MaxCost
     /\ SnapshotTicker' = cfg.SnapshotTicker
     /\ CleanupTicker' = cfg.CleanupTicker
     /\ ret' = [op |-> "SetConfig", err |-> cfg.err]
     /\ UNCHANGED <<Bucket, node, EvictList, Length, Cost, insOrder, useOrder,
                    lastValue, err, File, Lock, EvictLock, Stop, wg, pc, call,
                    hist, now, ref>>

\* Resume step by step, as it runs next to a SetConfig: GetDuration reads
\* the duration of the snapshot ticker, then of the cleanup ticker, without
\* a lock.
workerGetDuration ==
  /\ pc[Worker] \in {"spawned", "resumed"}
  /\ call' = [call EXCEPT ![Worker] =
                [op |-> "Resume",
                 d |-> IF pc[Worker] = "spawned" THEN SnapshotTicker.duration
                       ELSE CleanupTicker.duration]]
  /\ WorkerAt(IF pc[Worker] = "spawned" THEN "resumeSnapshot"
              ELSE "resumeCleanup")
  /\ UNCHANGED <<storeVars, err, File, Lock, EvictLock, Stop, wg,
                 SnapshotTicker, CleanupTicker, hist, now, ref, ret>>

\* Reset with the duration read, followed by the defer of Stop.
workerReset ==
  /\ pc[Worker] \in {"resumeSnapshot", "resumeCleanup"}
  /\ IF pc[Worker] = "resumeSnapshot"
     THEN /\ SnapshotTicker' = TimerReset(SnapshotTicker, call[Worker].d)
          /\ CleanupTicker' = CleanupTicker
          /\ WorkerAt("resumed")
     ELSE /\ CleanupTicker' = TimerReset(CleanupTicker, call[Worker].d)
          /\ SnapshotTicker' = SnapshotTicker
          /\ WorkerAt("cleanup")
  /\ UNCHANGED <<storeVars, err, File, Lock, EvictLock, Stop, wg, call, hist,
                 now, ref, ret>>

\* What a user callback returns: a value, or an error (with a nil value).
Results(V) ==
  {[ok |-> TRUE, value |-> v] : v \in V} \cup {[ok |-> FALSE, value |-> <<>>]}

\* The model stops growing at n linked nodes, access counters of a and
\* time t.
Within(n, a, t) ==
  /\ Length' <= n
  /\ \A w \in DOMAIN node' : node'[w].Access <= a
  /\ now' <= t

\* The calls a client and the background worker make, with keys from K,
\* values from V and ttls from T, while the model stays within n nodes,
\* access counters of a and time t.
Calls(K, V, T, n, a, t) ==
  \/ \E k \in K, v \in V, ttl \in T : Set(k, v, ttl) /\ Within(n, a, t)
  \/ \E k \in K : Get(k) /\ Within(n, a, t)
  \/ \E k \in K : Delete(k)
  \/ \E k \in K, r \in Results(V), ttl \in T :
       UpdateInPlace(k, r, ttl) /\ Within(n, a, t)
  \/ \E k \in K, r \in Results(V), ttl \in T :
       Memorize(k, r, ttl) /\ Within(n, a, t)
  \/ Cleanup
  \/ Evict
  \/ Clear
  \/ Tick /\ Within(n, a, t)

Next == Calls(Keys, Values, ShortTTLs, MaxNodes, MaxAccess, MaxTime)

Spec == Init /\ [][Next]_vars

\* FIFO or LRU with a cost bound and three keys.
InitOrder ==
  /\ Init
  /\ Policy \in {PolicyFIFO, PolicyLRU}
  /\ MaxCost = CostLimit

NextOrder == Calls(AllKeys, OneValue, ShortTTLs, MaxEntries, MaxAccess, MaxTime)

SpecOrder == InitOrder /\ [][NextOrder]_vars

\* LFU with a cost bound and three keys that never expire.
InitLFU == Init /\ Policy = PolicyLFU /\ MaxCost = CostLimit

NextLFU ==
  \/ \E k \in AllKeys, v \in OneValue :
       Set(k, v, 0) /\ Within(MaxEntries, MaxAccess, MaxTime)
  \/ \E k \in AllKeys : Get(k) /\ Within(MaxEntries, MaxAccess, MaxTime)
  \/ \E k \in AllKeys : Delete(k)
  \/ Evict

SpecLFU == InitLFU /\ [][NextLFU]_vars

\* LFU with every call that reaches a policy hook: Set, Get, UpdateInPlace
\* and Memorize, with callbacks that succeed or fail.
NextAccess ==
  \/ \E k \in AllKeys, v \in OneValue :
       Set(k, v, 0) /\ Within(MaxEntries, MaxAccess, MaxTime)
  \/ \E k \in AllKeys : Get(k) /\ Within(MaxEntries, MaxAccess, MaxTime)
  \/ \E k \in AllKeys : Delete(k)
  \/ \E k \in AllKeys, r \in Results(OneValue) :
       UpdateInPlace(k, r, 0) /\ Within(MaxEntries, MaxAccess, MaxTime)
  \/ \E k \in AllKeys, r \in Results(OneValue) :
       Memorize(k, r, 0) /\ Within(MaxEntries, MaxAccess, MaxTime)

SpecAccess == InitLFU /\ [][NextAccess]_vars

\* LTR with a cost bound and ttls of up to MaxTTL.
InitLTR == Init /\ Policy = PolicyLTR /\ MaxCost = CostLimit

NextLTR ==
  \/ \E k \in Keys, v \in OneValue, ttl \in TTLs :
       Set(k, v, ttl) /\ Within(MaxNodes, MaxAccess, MaxTime)
  \/ \E k \in Keys : Get(k)
  \/ \E k \in Keys : Delete(k)
  \/ Evict
  \/ ltrEvictCall
  \/ Tick /\ Within(MaxNodes, MaxAccess, MaxTime)

SpecLTR == InitLTR /\ [][NextLTR]_vars

\* Stores of two keys with ttls up to MaxTTL, snapshotted and loaded.
NextSnap ==
  \/ \E k \in Keys, v \in OneValue, ttl \in TTLs :
       Set(k, v, ttl) /\ Within(MaxNodes, MaxAccess, MaxTime)
  \/ \E k \in Keys : Get(k) /\ Within(MaxNodes, MaxAccess, MaxTime)
  \/ Tick /\ Within(MaxNodes, MaxAccess, MaxTime)
  \/ SnapshotLoad

SpecSnap == Init /\ [][NextSnap]_vars

\* A file-backed or in-memory cache called by its users while its worker
\* may fail.
InitErr ==
  /\ InitStore
  /\ InitAround
  /\ SnapshotTicker = NewStopped(0)
  /\ MaxCost = 0
  /\ Policy \in Policies
  /\ File \in {NoFile,
               [set |-> TRUE, data |-> EncodeStore(ClearStore, MaxCost, Policy)]}

NextErr ==
  \/ \E k \in Keys, v \in OneValue :
       cacheSet(k, v, 0) /\ Within(MaxNodes, MaxAccess, MaxTime)
  \/ \E k \in Keys : cacheGetValue(k) /\ Within(MaxNodes, MaxAccess, MaxTime)
  \/ \E k \in Keys : cacheDelete(k)
  \/ \E k \in Keys, r \in Results(OneValue) :
       cacheUpdateInPlace(k, r, 0) /\ Within(MaxNodes, MaxAccess, MaxTime)
  \/ \E k \in Keys, r \in Results(OneValue) :
       cacheMemorize(k, r, 0) /\ Within(MaxNodes, MaxAccess, MaxTime)
  \/ \E ok \in BOOLEAN : snapshotTick(ok)
  \/ workerRecover

SpecErr == InitErr /\ [][NextErr]_vars

\* The worker, the users and one call of Close on a cache with or without
\* a file, with or without snapshot ticks.
InitWorker ==
  /\ InitStore
  /\ InitAround
  /\ Policy = PolicyFIFO
  /\ MaxCost = 0
  /\ SnapshotTicker \in {NewStopped(0), TimerReset(NewStopped(0), 1)}
  /\ File \in {NoFile,
               [set |-> TRUE, data |-> EncodeStore(ClearStore, MaxCost, Policy)]}

NextWorker ==
  \/ \E k \in Keys, v \in OneValue :
       CanLock(Lock) /\ cacheSet(k, v, 0)
         /\ Within(MaxNodes, MaxAccess, MaxTime)
  \/ \E k \in Keys : CanLock(Lock) /\ cacheDelete(k)
  \/ workerResume
  \/ workerLock
  \/ workerCleanup
  \/ workerEvict
  \/ workerTick
  \/ workerFlushLock
  \/ \E ok \in BOOLEAN : workerFlush(ok)
  \/ workerStop
  \/ workerPanic
  \/ closeStop
  \/ closeWait
  \/ closeFlushLock
  \/ \E ok \in BOOLEAN : closeFlush(ok)
  \/ closeClear
  \/ closeReturn

SpecWorker == InitWorker /\ [][NextWorker]_vars

\* The users' calls next to a worker whose snapshots may fail, on a
\* file-backed cache with both tickers set; a call that finds the latent
\* error returns before it asks for the store lock.
InitLatent ==
  /\ InitStore
  /\ InitAround
  /\ Policy = PolicyFIFO
  /\ MaxCost = 0
  /\ SnapshotTicker = TimerReset(NewStopped(0), 1)
  /\ File = [set |-> TRUE, data |-> EncodeStore(ClearStore, MaxCost, Policy)]

NextLatent ==
  \/ \E k \in Keys, v \in OneValue :
       (err # "nil" \/ CanLock(Lock)) /\ cacheSet(k, v, 0)
         /\ Within(MaxNodes, MaxAccess, MaxTime)
  \/ \E k \in Keys :
       (err # "nil" \/ CanRLock(Lock)) /\ cacheGetValue(k)
         /\ Within(MaxNodes, MaxAccess, MaxTime)
  \/ \E k \in Keys, r \in Results(OneValue) :
       (err # "nil" \/ CanLock(Lock)) /\ cacheUpdateInPlace(k, r, 0)
         /\ Within(MaxNodes, MaxAccess, MaxTime)
  \/ \E k \in Keys, r \in Results(OneValue) :
       (err # "nil" \/ CanLock(Lock)) /\ cacheMemorize(k, r, 0)
         /\ Within(MaxNodes, MaxAccess, MaxTime)
  \/ workerResume
  \/ workerLock
  \/ workerCleanup
  \/ workerEvict
  \/ workerTick
  \/ workerFlushLock
  \/ \E ok \in BOOLEAN : workerFlush(ok)
  \/ workerPanic

SpecLatent == InitLatent /\ [][NextLatent]_vars

\* The steps the worker goroutine takes by itself once it is scheduled:
\* everything but the choice of the select and a panic.
workerRuns ==
  \/ workerResume
  \/ workerLock
  \/ workerCleanup
  \/ workerEvict
  \/ workerFlushLock
  \/ \E ok \in BOOLEAN : workerFlush(ok)

\* The steps of the goroutine that called Close.
closeRuns ==
  \/ closeWait
  \/ closeFlushLock
  \/ \E ok \in BOOLEAN : closeFlush(ok)
  \/ closeClear
  \/ closeReturn

\* SpecWorker under a fair scheduler: a goroutine that can run does run,
\* and the select, which picks among its ready cases at random, does not
\* pass over the closed Stop channel for ever.
SpecClose ==
  /\ SpecWorker
  /\ WF_vars(workerRuns)
  /\ SF_vars(workerStop)
  /\ WF_vars(closeRuns)

\* What the file of a file-backed open holds: nothing, the snapshot of a
\* store of one entry, or that snapshot cut short.
OneEntrySnapshot ==
  EncodeStore(storeSet(ClearStore, KeyList[1], <<97>>, 0), SmallCost, PolicyFIFO)

Disks ==
  {<<>>, OneEntrySnapshot,
   SubSeq(OneEntrySnapshot, 1, Len(OneEntrySnapshot) - 1)}

\* The calls of OpenRaw, OpenRawFile and OpenRawMem with up to two options.
OpenCalls ==
  [op : {"Open"}, entry : {"OpenRaw", "OpenRawFile", "OpenRawMem"},
   named : BOOLEAN,
   options : {<<>>} \cup {<<o>> : o \in Options}
               \cup {<<o, q>> : o \in Options, q \in Options},
   disk : Disks]

\* The options that set a ticker, given to SetConfig on the open cache.
TickerOptions ==
  {o \in Options : o.opt \in {"SetSnapshotTime", "SetCleanupTime"}}

\* One call of open on a store fresh from store.Init, no worker yet; the
\* opened cache runs its worker next to calls of SetConfig.
InitOpen ==
  /\ InitStore
  /\ Policy = PolicyNone
  /\ MaxCost = 0
  /\ SnapshotTicker = NewStopped(0)
  /\ CleanupTicker = NewStopped(CleanupInterval)
  /\ File = NoFile
  /\ err = "nil"
  /\ Lock = FreeLock
  /\ EvictLock = FreeLock
  /\ Stop = FALSE
  /\ wg = 0
  /\ pc = [t \in Threads |->
             IF t = Worker THEN "unborn" ELSE IF t = Closer THEN "open"
             ELSE "idle"]
  /\ call \in {[t \in Threads |-> IF t = Closer THEN c ELSE NoCall] :
                 c \in OpenCalls}
  /\ hist = [panicked |-> FALSE, atExit |-> <<>>, flushed |-> <<>>]

NextOpen ==
  \/ openConfig
  \/ \E ok \in BOOLEAN : openFile(ok)
  \/ \E ok \in BOOLEAN : openFresh(ok)
  \/ openLoad
  \/ openStart
  \/ \E o \in TickerOptions : cacheSetConfig(<<o>>)
  \/ workerGetDuration
  \/ workerReset
  \/ workerLock
  \/ workerCleanup
  \/ workerEvict
  \/ workerTick
  \/ workerFlushLock
  \/ workerFlush(TRUE)

SpecOpen == InitOpen /\ [][NextOpen]_vars

\* Up to FillNodes distinct keys, set in the order of KeyList (a key is
\* set anew once the keys after it are gone), deleted in any order and
\* looked up, on a store that starts with initialBucketSize buckets.
FillKeys == {KeyList[i] : i \in 1..FillNodes}

KeyIndex(key) == CHOOSE i \in 1..Len(KeyList) : KeyList[i] = key

InitFill == Init /\ Policy = PolicyFIFO /\ MaxCost = 0

NextFill ==
  \/ \E k \in FillKeys, v \in OneValue :
       /\ \A w \in DOMAIN node : KeyIndex(node[w].Key) < KeyIndex(k)
       /\ Set(k, v, 0)
       /\ Within(FillNodes, MaxAccess, MaxTime)
  \/ \E k \in FillKeys : lookup(Cur, k) # Nil /\ Delete(k)
  \/ \E k \in {KeyList[1], KeyList[FillNodes]} :
       Get(k) /\ Within(FillNodes, MaxAccess, MaxTime)

SpecFill == InitFill /\ [][NextFill]_vars

\* Two user threads calling Set (with a ttl), Delete and Get step by step
\* next to the worker's Cleanup, Evict and Snapshot, on a file-backed LRU
\* cache.
InitConc ==
  /\ InitStore
  /\ InitAround
  /\ Policy = PolicyLRU
  /\ MaxCost = SmallCost
  /\ SnapshotTicker = TimerReset(NewStopped(0), 1)
  /\ File = [set |-> TRUE, data |-> EncodeStore(ClearStore, MaxCost, Policy)]

NextConc ==
  \/ \E t \in Users, c \in UserCalls(Keys, OneValue, ShortTTLs \ {0}) :
       userLock(t, c)
  \/ \E t \in Users : userLookup(t)
  \/ \E t \in Users : userApply(t) /\ Within(MaxNodes, MaxAccess, MaxTime)
  \/ \E t \in Users : userRead(t)
  \/ \E t \in Users : userReturn(t)
  \/ QuietTick /\ Within(MaxNodes, MaxAccess, MaxTime)
  \/ workerResume
  \/ workerLock
  \/ workerCleanup
  \/ workerEvict
  \/ workerTick
  \/ workerFlushLock
  \/ workerFlush(TRUE)

SpecConc == InitConc /\ [][NextConc]_vars

\* One user thread calling Set, Delete and Memorize and one calling Get,
\* step by step, each waiting at the store lock when it is taken, next to a
\* worker whose Snapshot walks the eviction list node by node.
WalkCalls(t) ==
  {c \in UserCalls(Keys, OneValue, ShortTTLs \ {0})
          \cup MemoCalls({KeyList[2]}, OneValue, {0}) :
     /\ (c.op = "Get") = (t = 2)
     /\ c.op = "Delete" => c.key = KeyList[1]}

NextWalk ==
  \/ \E t \in Users : \E c \in WalkCalls(t) : userCall(t, c)
  \/ \E t \in Users : userAcquire(t)
  \/ \E t \in Users : userLookup(t)
  \/ \E t \in Users : userApply(t) /\ Within(MaxNodes, MaxAccess, MaxTime)
  \/ \E t \in Users : userRead(t)
  \/ \E t \in Users : userReturn(t)
  \/ QuietTick /\ Within(MaxNodes, MaxAccess, MaxTime)
  \/ workerResume
  \/ workerLock
  \/ workerCleanup
  \/ workerEvict
  \/ workerTick
  \/ workerFlushLock
  \/ snapshotHeader
  \/ snapshotNode
  \/ snapshotFlush

SpecWalk == InitConc /\ [][NextWalk]_vars

\* Set with every value and ttl on keys that are missing, live, expired or
\* doubled by Memorize, under every policy.
NextSet ==
  \/ \E k \in Keys, v \in Values, ttl \in ShortTTLs :
       SetCall(k, v, ttl) /\ Within(MaxNodes, MaxAccess, MaxTime)
  \/ \E k \in Keys :
       Memorize(k, [ok |-> TRUE, value |-> <<97>>], 1)
         /\ Within(MaxNodes, MaxAccess, MaxTime)
  \/ \E k \in Keys : Delete(k)
  \/ Tick /\ Within(MaxNodes, MaxAccess, MaxTime)

SpecSet == Init /\ [][NextSet]_vars

\* One PauseTimer, built by New or NewStopped, under Reset, Stop and Resume;
\* hist.durations holds the durations it was given, the constructor's first.
Durations == {0, 1, 2}

InitTimer ==
  /\ InitStore
  /\ MaxCost = 0
  /\ Policy = PolicyNone
  /\ err = "nil"
  /\ File = NoFile
  /\ Lock = FreeLock
  /\ EvictLock = FreeLock
  /\ Stop = FALSE
  /\ wg = 0
  /\ CleanupTicker = NewStopped(CleanupInterval)
  /\ pc = [t \in Threads |-> "idle"]
  /\ call = [t \in Threads |-> NoCall]
  /\ \E d \in Durations :
       /\ SnapshotTicker \in {New(d), NewStopped(d)}
       /\ hist = [durations |-> <<d>>]

timerStep(op, t) ==
  /\ SnapshotTicker' = t
  /\ ret' = [op |-> op, running |-> SnapshotTicker.running]
  /\ UNCHANGED <<now, Bucket, node, EvictList, Length, Cost, MaxCost, Policy,
                 ref, insOrder, useOrder, lastValue, err, File, Lock,
                 EvictLock, Stop, wg, CleanupTicker, pc, call>>

timerReset(d) ==
  /\ Len(hist.durations) <= MaxResets
  /\ timerStep("Reset", TimerReset(SnapshotTicker, d))
  /\ hist' = [hist EXCEPT !.durations = Append(@, d)]

timerStop == timerStep("Stop", TimerStop(SnapshotTicker)) /\ UNCHANGED hist

timerResume == timerStep("Resume", TimerResume(SnapshotTicker)) /\ UNCHANGED hist

NextTimer ==
  \/ \E d \in Durations : timerReset(d)
  \/ timerStop
  \/ timerResume

SpecTimer == InitTimer /\ [][NextTimer]_vars

\* The calls that take the store lock, with the callback results of
\* UpdateInPlace and Memorize and the option of SetConfig.
LockCalls(K, V) ==
  LET c(op, k, v, r, o) ==
        [op |-> op, key |-> k, value |-> v, ttl |-> 0, result |-> r,
         option |-> o, v |-> Nil]
      none == [ok |-> FALSE, value |-> <<>>]
      noOption == [opt |-> "none", arg |-> 0]
  IN {c("Get", k, <<>>, none, noOption) : k \in K}
       \cup {c("Set", k, v, none, noOption) : k \in K, v \in V}
       \cup {c("Delete", k, <<>>, none, noOption) : k \in K}
       \cup {c("UpdateInPlace", k, <<>>, r, noOption) : k \in K, r \in Results(V)}
       \cup {c("Memorize", k, <<>>, r, noOption) : k \in K, r \in Results(V)}
       \cup {c("Clear", <<>>, <<>>, none, noOption),
             c("Flush", <<>>, <<>>, none, noOption),
             c("SetConfig", <<>>, <<>>, none,
               [opt |-> "WithMaxCost", arg |-> CostLimit])}

\* Two user threads in every call that takes the store lock, on one key,
\* each lock request a step of its own, next to the worker's Cleanup, Evict
\* and Flush.
InitLock ==
  /\ InitStore
  /\ InitAround
  /\ Policy \in {PolicyFIFO, PolicyLRU, PolicyLTR}
  /\ MaxCost = SmallCost
  /\ SnapshotTicker = TimerReset(NewStopped(0), 1)
  /\ File = [set |-> TRUE, data |-> EncodeStore(ClearStore, MaxCost, Policy)]

NextLock ==
  \/ \E t \in Users : \E c \in LockCalls({KeyList[1]}, OneValue) : userCall(t, c)
  \/ \E t \in Users : userAcquire(t)
  \/ \E t \in Users : lockPlain(t) /\ Within(MaxNodes, MaxAccess, MaxTime)
  \/ \E t \in Users : listWait(t)
  \/ \E t \in Users : listAcquire(t) /\ Within(MaxNodes, MaxAccess, MaxTime)
  \/ \E t \in Users : listRelease(t)
  \/ \E t \in Users : userReturn(t)
  \/ workerResume
  \/ workerLockFirst
  \/ workerLockSecond
  \/ workerCleanup
  \/ workerEvict
  \/ workerTick
  \/ workerFlushLock
  \/ workerFlush(TRUE)

SpecLock == InitLock /\ [][NextLock]_vars

\* Delete and Get on keys that are missing, live, expired or doubled by
\* Memorize, on a cache without latent error, under every policy.
NextDelete ==
  \/ \E k \in Keys, ttl \in ShortTTLs :
       Set(k, <<97>>, ttl) /\ Within(MaxNodes, MaxAccess, MaxTime)
  \/ \E k \in Keys :
       Memorize(k, [ok |-> TRUE, value |-> <<98, 98>>], 1)
         /\ Within(MaxNodes, MaxAccess, MaxTime)
  \/ \E k \in Keys : DeleteCall(k)
  \/ \E k \in Keys : cacheGetValue(k) /\ Within(MaxNodes, MaxAccess, MaxTime)
  \/ Tick /\ Within(MaxNodes, MaxAccess, MaxTime)

SpecDelete == Init /\ [][NextDelete]_vars

\* UpdateInPlace and Memorize with callbacks that succeed or fail, on keys
\* that are missing, live or expired, under every policy.
NextFail ==
  \/ \E k \in Keys, ttl \in ShortTTLs :
       Set(k, <<97>>, ttl) /\ Within(MaxNodes, MaxAccess, MaxTime)
  \/ \E k \in Keys, r \in Results({<<98, 98>>}), ttl \in ShortTTLs :
       UpdateInPlaceCall(k, r, ttl) /\ Within(MaxNodes, MaxAccess, MaxTime)
  \/ \E k \in Keys, r \in Results({<<99>>}) :
       Memorize(k, r, 1) /\ Within(MaxNodes, MaxAccess, MaxTime)
  \/ \E k \in Keys : Get(k) /\ Within(MaxNodes, MaxAccess, MaxTime)
  \/ Tick /\ Within(MaxNodes, MaxAccess, MaxTime)

SpecFail == Init /\ [][NextFail]_vars

\* Set with ttl 0, Delete and Get without cost bound, next to a reference
\* mapping fed the same calls.
InitRef == Init /\ MaxCost = 0

RefSet(key, value) ==
  /\ SetBody(key, value, 0)
  /\ ref' = [k \in DOMAIN ref \cup {key} |-> IF k = key THEN value ELSE ref[k]]

RefDelete(key) ==
  /\ DeleteBody(key)
  /\ ref' = [k \in DOMAIN ref \ {key} |-> ref[k]]

RefGet(key) == GetBody(key) /\ UNCHANGED ref

NextRef ==
  \/ \E k \in AllKeys, v \in Values :
       RefSet(k, v) /\ Within(MaxEntries, MaxAccess, MaxTime)
  \/ \E k \in AllKeys : RefDelete(k)
  \/ \E k \in AllKeys : RefGet(k) /\ Within(MaxEntries, MaxAccess, MaxTime)

SpecRef == InitRef /\ [][NextRef]_vars

\* A FIFO store without cost bound that is filled until it resizes.
InitGrow == Init /\ Policy = PolicyFIFO /\ MaxCost = 0

NextGrow ==
  \/ \E k \in AllKeys, v \in OneValue :
       Memorize(k, [ok |-> TRUE, value |-> v], 1)
         /\ Within(GrowNodes, MaxAccess, GrowTime)
  \/ \E k \in AllKeys : Get(k)
  \/ Tick /\ Within(GrowNodes, MaxAccess, GrowTime)

SpecGrow == InitGrow /\ [][NextGrow]_vars

\* Entries that expire and are memorized again until the table grows, and
\* updates in place of what is stored.
NextUpdate ==
  \/ \E k \in AllKeys, v \in OneValue :
       Memorize(k, [ok |-> TRUE, value |-> v], 1)
         /\ Within(GrowNodes, MaxAccess, GrowTime)
  \/ \E v \in Values \ OneValue :
       UpdateInPlaceCall(KeyList[1], [ok |-> TRUE, value |-> v], 1)
         /\ Within(GrowNodes, MaxAccess, GrowTime)
  \/ Tick /\ Within(GrowNodes, MaxAccess, GrowTime)

SpecUpdate == InitGrow /\ [][NextUpdate]_vars

\* Entries that expire and are memorized again until the table grows, by
\* factories that succeed or fail.
NextMemo ==
  \/ \E k \in AllKeys, r \in Results(OneValue) :
       Memorize(k, r, 1) /\ Within(GrowNodes, MaxAccess, GrowTime)
  \/ Tick /\ Within(GrowNodes, MaxAccess, GrowTime)

SpecMemo == InitGrow /\ [][NextMemo]_vars

\* ------------------------------------------------------------- properties
\* C1: no two nodes linked in the hash table have the same key.
C1_NoDuplicateKeys ==
  \A i \in DOMAIN Bucket : \A a, b \in 1..Len(Bucket[i]) :
    node[Bucket[i][a]].Key = node[Bucket[i][b]].Key => a = b

CostOfList == SumSeq([i \in 1..Len(EvictList) |-> NodeCost(node[EvictList[i]])], 1)

\* C2: Length is the number of non-sentinel nodes on the eviction list and
\* Cost is the sum of len(key)+len(value) over exactly those nodes.
C2_CountersExact == Length = Len(EvictList) /\ Cost = CostOfList

\* Two nodes are linked, one of them written in place, after a deletion.
C2_Witness ==
  /\ ret.op = "Delete" /\ ret.found
  /\ Length = 1
  /\ Cost = 3

\* C3: with ttl 0 everywhere, Get(k) returns found with value v exactly when
\* the reference mapping maps k to v, and Delete(k) returns true exactly
\* when the reference mapping contained k before the call.
C3_MatchesReference ==
  [][/\ ret'.op = "Get" =>
          /\ ret'.found <=> ret'.key \in DOMAIN ref'
          /\ ret'.found => ret'.value = ref'[ret'.key]
     /\ ret'.op = "Delete" => (ret'.found <=> ret'.key \in DOMAIN ref)]_vars

\* A Get finds the overwritten value of a key that shares its bucket with
\* another key, three keys being stored.
C3_Witness ==
  /\ ret.op = "Get" /\ ret.found
  /\ ret.key = KeyList[1] /\ ret.value = <<98, 98>>
  /\ DOMAIN ref = AllKeys
  /\ Len(Bucket[lookupIdx(Cur, KeyList[1])]) = 2

NodesOf(key) == {w \in DOMAIN node : node[w].Key = key}

\* C4: Get(k) returns not-found whenever k is absent or expired, and returns
\* the most recently stored value with its remaining ttl when k has a valid
\* entry.
C4_GetResult ==
  ret.op = "Get" =>
    /\ (\A w \in NodesOf(ret.key) : ~IsValid(node[w])) => ~ret.found
    /\ (\E w \in NodesOf(ret.key) : IsValid(node[w])) =>
         /\ ret.found
         /\ ret.value = lastValue[ret.key]
         /\ \E w \in NodesOf(ret.key) :
              /\ IsValid(node[w])
              /\ node[w].Value = ret.value
              /\ TTL(node[w]) = ret.ttl

\* C5: when Evict returns with a cost bound and an evicting policy,
\* Cost <= MaxCost, and every victim was deleted while Cost > MaxCost.
C5_EvictToBound ==
  ret.op = "Evict" =>
    /\ (MaxCost # 0 /\ Policy # PolicyNone) => Cost <= MaxCost
    /\ \A i \in 1..Len(ret.trace) : ret.trace[i] > MaxCost

\* Evict deleted one of two entries and kept the other.
C5_Witness ==
  /\ ret.op = "Evict"
  /\ Len(ret.trace) = 1
  /\ Length = 1
  /\ Cost <= MaxCost

\* C6: with a cost bound and a policy other than None, Cost never exceeds
\* MaxCost.
C6_CostBounded == (MaxCost # 0 /\ Policy # PolicyNone) => Cost <= MaxCost

\* C7: under LFU the victim has the minimum access count among the linked
\* entries.
C7_VictimLeastUsed ==
  (Policy = PolicyLFU /\ EvictList # <<>>) =>
    \A w \in DOMAIN node :
      node[lfuEvict(node, EvictList)].Access <= node[w].Access

Expiring == {w \in DOMAIN node : TTL(node[w]) > 0}

\* C8: under LTR the tail of the eviction list is the entry with the
\* smallest positive remaining ttl.
C8_TailLeastRemaining ==
  (Policy = PolicyLTR /\ Expiring # {}) =>
    /\ EvictList[Len(EvictList)] \in Expiring
    /\ \A w \in Expiring : TTL(node[EvictList[Len(EvictList)]]) <= TTL(node[w])

\* C9: under LRU the eviction list is in order of most recent insert,
\* successful read or update, the victim being the entry used longest ago.
C9_LeastRecentlyUsed ==
  Policy = PolicyLRU =>
    /\ EvictList = useOrder
    /\ EvictList # <<>> => lruEvict(node, EvictList) = useOrder[Len(useOrder)]

\* Under LRU Evict removed one of three entries.
C9_Witness ==
  /\ Policy = PolicyLRU
  /\ ret.op = "Evict"
  /\ Len(ret.trace) = 1
  /\ Length = 2

\* C10: under FIFO the eviction list is in insertion order, the victim being
\* the entry inserted earliest; reads and writes in place do not reorder it.
C10_FirstInFirstOut ==
  Policy = PolicyFIFO =>
    /\ EvictList = insOrder
    /\ EvictList # <<>> =>
         fifoEvict(node, EvictList, TRUE) = insOrder[Len(insOrder)]

\* Under FIFO a Get read the earliest of three entries, which is still the
\* victim.
C10_Witness ==
  /\ Policy = PolicyFIFO
  /\ ret.op = "Get" /\ ret.found
  /\ Length = 3
  /\ node[EvictList[3]].Key = ret.key

\* C11: LTR's Evict with EvictZero false never returns an entry whose ttl
\* is 0, and returns nothing when every linked entry has ttl 0.
C11_NoZeroVictim ==
  ret.op = "ltrEvict" =>
    /\ ret.victim # Nil => TTL(node[ret.victim]) # 0
    /\ (\A w \in DOMAIN node : TTL(node[w]) = 0) => ret.victim = Nil

\* Evict returned nothing with an entry without expiration at the tail and
\* an expiring entry before it.
C11_Witness ==
  /\ ret.op = "ltrEvict" /\ ret.victim = Nil
  /\ Length = 2
  /\ TTL(node[EvictList[2]]) = 0
  /\ TTL(node[EvictList[1]]) > 0

\* C12: Evict removes no entry and leaves Length, Cost and the eviction
\* order unchanged whenever MaxCost = 0, or the policy is None, or
\* Cost <= MaxCost when it runs.
C12_EvictFrame ==
  [][(/\ ret'.op = "Evict"
      /\ (MaxCost = 0 \/ Policy = PolicyNone \/ Cost <= MaxCost))
     => /\ ret'.trace = <<>>
        /\ UNCHANGED <<Bucket, node, EvictList, Length, Cost>>]_vars

\* Evict ran under policy None with Cost above a non-zero MaxCost and
\* removed nothing.
C12_Witness ==
  /\ ret.op = "Evict" /\ ret.trace = <<>>
  /\ Policy = PolicyNone
  /\ MaxCost # 0 /\ Cost > MaxCost
  /\ Length = 2

\* C13: Cleanup removes exactly the entries whose expiration is non-zero
\* and <= now; every other entry keeps its fields and the survivors keep
\* their relative eviction order.
C13_CleanupExact ==
  [][ret'.op = "Cleanup" =>
       NodesInOrder' = SelectSeq(NodesInOrder, IsValid)]_vars

\* Cleanup removed one expired entry and kept an entry that expires later.
C13_Witness ==
  /\ ret.op = "Cleanup" /\ ret.removed = 1
  /\ Length = 1
  /\ node[EvictList[1]].Expiration > now

\* C14: Snapshot followed by Load into a freshly initialised store
\* reproduces MaxCost, the policy type, the eviction-list order, every
\* entry's key, value and access count, no expiration as no expiration and
\* an expiration truncated to whole seconds, and Length and Cost.
C14_RoundTrip ==
  ret.op = "Load" =>
    /\ MaxCost = ret.want.MaxCost
    /\ Policy = ret.want.Policy
    /\ Length = ret.want.Length
    /\ Cost = ret.want.Cost
    /\ Len(EvictList) = Len(ret.want.nodes)
    /\ \A i \in 1..Len(ret.want.nodes) :
         LET got == node[EvictList[i]]
             want == ret.want.nodes[i]
         IN /\ got.Key = want.Key
            /\ got.Value = want.Value
            /\ got.Access = want.Access
            /\ got.Expiration =
                 IF want.Expiration = 0 THEN 0
                 ELSE (want.Expiration \div TicksPerSecond) * TicksPerSecond

\* A store of two entries was loaded, one without expiration, one whose
\* expiration lost its fraction of a second.
C14_Witness ==
  /\ ret.op = "Load"
  /\ Length = 2
  /\ \E i, j \in 1..2 :
       /\ ret.want.nodes[i].Expiration = 0
       /\ ret.want.nodes[j].Expiration % TicksPerSecond # 0
       /\ node[EvictList[j]].Expiration < ret.want.nodes[j].Expiration

\* C18: UpdateInPlace(key, fn, ttl) returns ErrKeyNotFound without invoking
\* fn when the key is absent or expired; when the key has a valid entry it
\* gives fn the current value and, fn succeeding, stores the result under
\* the same key with the expiration derived from ttl, changes Cost by the
\* change in value length and leaves Length unchanged.
C18_UpdateInPlace ==
  [][ret'.op = "UpdateInPlace" =>
       LET k == ret'.key
       IN IF \A w \in NodesOf(k) : ~IsValid(node[w])
          THEN /\ ret'.err = ErrKeyNotFound
               /\ ~ret'.called
          ELSE /\ ret'.called
               /\ ret'.arg = lastValue[k]
               /\ ret'.result.ok =>
                    /\ ret'.err = "nil"
                    /\ Length' = Length
                    /\ Cost' = Cost + Len(ret'.result.value) - Len(ret'.arg)
                    /\ \E w \in DOMAIN node' :
                         /\ node'[w].Key = k
                         /\ node'[w].Value = ret'.result.value
                         /\ node'[w].Expiration = ExpirationFor(ret'.ttl)]_vars

\* C15: Memorize runs the factory exactly when, at the moment it holds the
\* write lock, the key is absent or expired: it runs it when no valid entry
\* for the key is stored, and answers from the store otherwise.
C15_FactoryWhenMissing ==
  [][ret'.op = "Memorize" =>
       (~ret'.hit <=> \A w \in NodesOf(ret'.key) : ~IsValid(node[w]))]_vars

\* C16: once the latent error is set, every Set, Get, Delete,
\* UpdateInPlace and Memorize call returns that error and leaves the store
\* as it was.
C16_LatentErrorFirst ==
  [][(err # "nil"
        /\ ret'.op \in {"Set", "Get", "Delete", "UpdateInPlace", "Memorize"})
       => /\ ret'.err = err
          /\ UNCHANGED <<Bucket, node, EvictList, Length, Cost>>]_vars

\* C19: a panic inside the background worker is captured: the latent error
\* is set, both tickers are stopped, the worker has exited, it holds neither
\* lock, and the wait group Close waits on is released.
C19_PanicCaptured ==
  hist.panicked =>
    /\ err = PanicErr
    /\ pc[Worker] = "done"
    /\ ~SnapshotTicker.running
    /\ ~CleanupTicker.running
    /\ Lock.w # Worker
    /\ EvictLock.w # Worker
    /\ WaitReturns(wg)

\* The worker panicked while it held the store lock over two entries, and
\* a call of Close made afterwards has returned.
C19_Witness ==
  /\ hist.panicked
  /\ Len(hist.atExit) = 2
  /\ ret.op = "Close"
  /\ pc[Closer] = "closed"

\* The entries a file holds, in the order LoadSnapshot links them.
Loaded(data) ==
  LET r == DecodeStore(ClearStore, data)
  IN [i \in 1..Len(r.s.EvictList) |-> r.s.node[r.s.EvictList[i]]]

\* The final flush of Close runs only after the worker has exited and never
\* while the worker writes a snapshot.
FlushAfterWorker ==
  /\ pc[Closer] \in {"flush", "inFlush", "clear", "closeFile", "closed"}
       => pc[Worker] = "done"
  /\ ~(pc[Closer] = "inFlush" /\ pc[Worker] = "inFlush")

SeqStore(c, s) ==
  CASE c.op = "Set" -> storeSet(s, c.key, c.value, c.ttl)
    [] c.op = "Delete" -> storeDelete(s, c.key)
    [] OTHER -> storeGet(s, c.key)

SeqResult(c, s) ==
  CASE c.op = "Set" -> NoResult
    [] c.op = "Delete" -> [NoResult EXCEPT !.found = lookup(s, c.key) # Nil]
    [] OTHER -> getResult(s, c.key)

\* The step at which the call of thread t takes effect: the body of Set and
\* Delete, the OnAccess of a Get that found its key, the lookup of a Get
\* that did not.
TakesEffect(t) ==
  \/ pc[t] = "found" /\ pc'[t] # "found"
  \/ pc[t] = "locked" /\ pc'[t] = "unlock"

WorkerTakesEffect == pc[Worker] \in {"inCleanup", "inEvict", "inFlush"}
                       /\ pc'[Worker] # pc[Worker]

\* C17: every call of Set, Delete, Get, Cleanup, Evict and Snapshot takes
\* effect at one step between its start and its return: at that step the
\* store (contents, Cost, Length, eviction order) and the file change as
\* they do when the call runs alone, the call returns what it returns when
\* run alone at that step, and no other step changes the store.
C17_Linearizable ==
  [][/\ \A t \in Users :
          /\ TakesEffect(t) => /\ Cur' = Canon(SeqStore(call[t], Cur))
                               /\ call'[t].want = SeqResult(call[t], Cur)
          /\ pc[t] = "unlock" /\ pc'[t] = "idle"
               => call[t].result = call[t].want
     /\ pc[Worker] = "inCleanup" /\ pc'[Worker] # "inCleanup"
          => Cur' = Canon(storeCleanup(Cur))
     /\ pc[Worker] = "inEvict" /\ pc'[Worker] # "inEvict"
          => Cur' = Canon(storeEvict(Cur).s)
     /\ pc[Worker] = "inFlush" /\ pc'[Worker] # "inFlush"
          => /\ Cur' = Cur
             /\ File'.data = WriteAtStart(File.data,
                                          EncodeStore(Cur, MaxCost, Policy))
     /\ (~WorkerTakesEffect /\ \A t \in Users : ~TakesEffect(t))
          => Cur' = Cur]_vars

\* Both users are inside Get under the read lock, one past its OnAccess and
\* one before, while the worker waits for the lock over a store of two
\* entries.
C17_Witness ==
  /\ Lock.r = Users
  /\ \E t, u \in Users : pc[t] = "read" /\ pc[u] = "found"
  /\ pc[Worker] \in {"cleanup", "evict", "flush"}
  /\ Length = 2

\* ----------------------------------------------------------------- C21
\* C21: after Close has closed the Stop channel, the worker finishes the
\* tick work it is in (it leaves its loop only from the select, unless it
\* panics), then exits, and Close returns, under a fair scheduler.
C21_CloseReturns ==
  /\ [][(pc[Worker] # "done" /\ pc'[Worker] = "done" /\ ~hist'.panicked)
          => (pc[Worker] = "select" /\ Stop
              /\ Lock'.w # Worker /\ EvictLock'.w # Worker)]_vars
  /\ Stop ~> (pc[Worker] = "done")
  /\ Stop ~> (pc[Closer] = "closed")

\* Close has returned after a worker that did not panic has exited, with
\* entries in the store when it left.
C21_Witness ==
  /\ pc[Closer] = "closed"
  /\ pc[Worker] = "done"
  /\ ~hist.panicked
  /\ Len(hist.atExit) > 0

\* ----------------------------------------------------------------- C22
\* The argument of the last option named opt, d if there is none.
RECURSIVE LastArg(_, _, _, _)
LastArg(options, opt, d, i) ==
  IF i = 0 THEN d
  ELSE IF options[i].opt = opt THEN options[i].arg
  ELSE LastArg(options, opt, d, i - 1)

\* The open call asks for a file.
FileBacked(c) == c.entry # "OpenRawMem" /\ c.named

\* A step of the open call that cannot succeed on these arguments.
MustFail(c) ==
  \/ c.entry = "OpenRawFile" /\ ~c.named
  \/ \E i \in 1..Len(c.options) :
       c.options[i].opt = "WithPolicy" /\ c.options[i].arg \notin Policies
  \/ FileBacked(c) /\ c.disk # <<>> /\ c.disk # OneEntrySnapshot

\* What holds when the worker is started: every option is in force and the
\* file, if any, holds the store (loaded from it, or flushed into it).
Opened(c) ==
  LET n == Len(c.options)
  IN /\ SnapshotTicker.duration = LastArg(c.options, "SetSnapshotTime", 0, n)
     /\ CleanupTicker.duration =
          LastArg(c.options, "SetCleanupTime", CleanupInterval, n)
     /\ ~MustFail(c)
     /\ File.set = FileBacked(c)
     /\ File.set => File.data = EncodeStore(Cur, MaxCost, Policy)
     /\ (FileBacked(c) /\ c.disk # <<>>) => File.data = c.disk
     /\ (~FileBacked(c) \/ c.disk = <<>>) =>
          /\ Length = 0
          /\ Policy = LastArg(c.options, "WithPolicy", PolicyNone, n)
          /\ MaxCost = LastArg(c.options, "WithMaxCost", 0, n)

C22_WitnessFailed ==
  /\ pc[Closer] = "failed"
  /\ ret.err = EOFErr
  /\ pc[Worker] = "unborn"

\* ----------------------------------------------------------------- C23
\* The expiration field Snapshot wrote for the i-th entry of the last Load.
FieldOf(i) == EncodeTime(ret.want.nodes[i].Expiration)

\* C23 as stated: in a snapshot record the expiration field is 0 exactly
\* when the entry has no expiration, and a record whose field is 0 loads
\* as an entry that never expires.
C23_ZeroMeansNever ==
  ret.op = "Load" =>
    \A i \in 1..Len(ret.want.nodes) :
      /\ FieldOf(i) = EncodeUint64(0) <=> ret.want.nodes[i].Expiration = 0
      /\ FieldOf(i) = EncodeUint64(0) => node[EvictList[i]].Expiration = 0

\* C23, amended: the expiration field is the Unix seconds of the zero
\* instant, as a u64, exactly when the entry has no expiration, and exactly
\* a record with that field loads as an entry that never expires; a record
\* whose field is 0 loads as an entry that expires at the Unix epoch, no
\* longer valid from then on.
C23_ZeroInstantMeansNever ==
  ret.op = "Load" =>
    \A i \in 1..Len(ret.want.nodes) :
      /\ FieldOf(i) = ZeroTimeBytes <=> ret.want.nodes[i].Expiration = 0
      /\ node[EvictList[i]].Expiration = DecodeTime(FieldOf(i), 1).val
      /\ node[EvictList[i]].Expiration = 0 <=> FieldOf(i) = ZeroTimeBytes
      /\ FieldOf(i) = EncodeUint64(0) =>
           /\ node[EvictList[i]].Expiration = TimeUnix(0)
           /\ now >= TimeUnix(0) => ~IsValid(node[EvictList[i]])

\* A loaded store with an entry without expiration and an entry whose
\* expiration field is 0.
C23_Witness ==
  /\ ret.op = "Load"
  /\ Length = 2
  /\ \E i, j \in 1..2 :
       /\ ret.want.nodes[i].Expiration = 0
       /\ FieldOf(j) = EncodeUint64(0)

\* ----------------------------------------------------------------- C24
\* 64-bit FNV-1a: each byte is xored into the hash, the result then
\* multiplied by the prime modulo 2^64.
RECURSIVE fnv1aFrom(_, _, _)
fnv1aFrom(h, data, i) ==
  IF i > Len(data) THEN h
  ELSE fnv1aFrom(Mul64([h EXCEPT ![1] = Xor8(h[1], data[i], 8)], prime64),
                 data, i + 1)

\* C24: hash(key) is the 64-bit FNV-1a hash of the whole key, from offset
\* basis 0xcbf29ce484222325 with prime 0x100000001b3: the hash every
\* linked node carries is the FNV-1a hash of its key.
C24_HashIsFNV1a ==
  \A w \in DOMAIN node : node[w].Hash = fnv1aFrom(offset64, node[w].Key, 1)

\* ----------------------------------------------------------------- C25
\* C25: a ticker whose duration is 0, by construction or after Reset(0),
\* does not run, also after the worker's Resume; the worker takes a
\* snapshot tick only with a snapshot time other than 0, and a cleanup
\* tick only with a cleanup time other than 0.
C25_ZeroNeverFires ==
  /\ [](SnapshotTicker.duration = 0 => ~SnapshotTicker.running)
  /\ [](CleanupTicker.duration = 0 => ~CleanupTicker.running)
  /\ [][(pc[Worker] = "select" /\ pc'[Worker] = "flush")
          => SnapshotTicker.duration # 0]_vars
  /\ [][(pc[Worker] = "select" /\ pc'[Worker] = "cleanup")
          => CleanupTicker.duration # 0]_vars

\* The worker waits in its select with the snapshot ticker set to 0 by a
\* SetConfig on the open cache, the cleanup ticker running.
C25_Witness ==
  /\ pc[Worker] = "select"
  /\ ret.op = "SetConfig"
  /\ SnapshotTicker.duration = 0
  /\ LastArg(call[Closer].options, "SetSnapshotTime", 0,
             Len(call[Closer].options)) # 0
  /\ CleanupTicker.running

\* ----------------------------------------------------------------- C26
\* C26: after every insert of a new key Length / capacity <= 0.75 and the
\* capacity is a power of two >= 8, the table being doubled before the
\* node is linked whenever linking it would push the ratio above 0.75:
\* starting from an empty store of 8 buckets, the capacity is 16 once 7
\* keys are in.
C26_LoadFactor ==
  /\ Length * loadFactorDen <= Capacity(Cur) * loadFactorNum
  /\ Capacity(Cur) \in {initialBucketSize, 2 * initialBucketSize,
                        4 * initialBucketSize}
  /\ Length >= 7 => Capacity(Cur) >= 2 * initialBucketSize

\* ----------------------------------------------------------------- C28
\* The access counter of the entry of key in the nodes nd (no key has two
\* nodes when nothing expires).
AccessOf(nd, key) == nd[CHOOSE w \in DOMAIN nd : nd[w].Key = key].Access

\* The step is a Set or an UpdateInPlace that replaced the value of a
\* linked entry.
Replaces ==
  \/ ret'.op = "Set" /\ lookup(Cur, ret'.key) # Nil
  \/ ret'.op = "UpdateInPlace" /\ ret'.err = "nil"

\* The step is a Get that found its key or a Memorize that hit.
Accesses ==
  \/ ret'.op = "Get" /\ ret'.found
  \/ ret'.op = "Memorize" /\ ret'.hit

\* C28 as stated: under LFU, replacing the value or expiration of an
\* existing entry (on_update, reached from Set and UpdateInPlace) leaves
\* that entry's access counter as it was; only a Get that finds the entry
\* or a Memorize hit increments it.
C28_UpdateKeepsAccess ==
  [][/\ Replaces => AccessOf(node', ret'.key) = AccessOf(node, ret'.key)
     /\ Accesses => AccessOf(node', ret'.key) = AccessOf(node, ret'.key) + 1]_vars

\* C28, amended: under LFU, replacing the value or expiration of an
\* existing entry (Set on a linked key, UpdateInPlace whose callback
\* succeeds) increments that entry's access counter by one, as a Get that
\* finds the entry and a Memorize hit do; no step changes the counter of
\* another entry, and no other step changes a counter at all.
C28_UpdateCountsAccess ==
  [][/\ (Replaces \/ Accesses) =>
          AccessOf(node', ret'.key) = AccessOf(node, ret'.key) + 1
     /\ \A k \in KeysOf(node) \cap KeysOf(node') :
          AccessOf(node', k) # AccessOf(node, k) =>
            (k = ret'.key /\ (Replaces \/ Accesses))]_vars

\* UpdateInPlace has replaced the value of an entry, whose counter is now 1,
\* next to an entry that was never read.
C28_Witness ==
  /\ ret.op = "UpdateInPlace"
  /\ ret.err = "nil"
  /\ Length = 2
  /\ AccessOf(node, ret.key) = 1
  /\ \E k \in KeysOf(node) : AccessOf(node, k) = 0

\* ----------------------------------------------------------------- C27
\* The places <<i, j>> at which the handle w stands in a bucket chain.
ChainPlaces(w) ==
  {p \in UNION {{<<i, j>> : j \in 1..Len(Bucket[i])} : i \in DOMAIN Bucket} :
     Bucket[p[1]][p[2]] = w}

\* The places at which w stands on the eviction list.
ListPlaces(w) == {i \in 1..Len(EvictList) : EvictList[i] = w}

\* C27: every live node is linked in exactly one bucket chain, the one at
\* index hash mod capacity, and exactly once in the eviction list; the
\* nodes reachable through the buckets are those of the eviction list, and
\* the eviction sentinel points to itself exactly when the store is empty.
C27_Membership ==
  /\ \A w \in DOMAIN node :
       /\ Cardinality(ChainPlaces(w)) = 1
       /\ \A p \in ChainPlaces(w) : p[1] = Mod64(node[w].Hash, Capacity(Cur))
       /\ Cardinality(ListPlaces(w)) = 1
  /\ {w \in 1..(Length + 1) : ChainPlaces(w) # {}}
       = {EvictList[i] : i \in 1..Len(EvictList)}
  /\ Cardinality(DOMAIN node) = Length
  /\ (EvictNext(EvictList, Sentinel) = Sentinel
        /\ EvictPrev(EvictList, Sentinel) = Sentinel) <=> Length = 0

\* A table that was doubled by the Set of an eighth key: the keys "1" and
\* "9", which shared a chain of the table of 8 buckets, are linked in two
\* chains.
C27_Witness ==
  /\ Capacity(Cur) = 2 * initialBucketSize
  /\ Length = 8
  /\ ret.op = "Set"
  /\ lookup(Cur, KeyList[1]) # Nil
  /\ lookup(Cur, KeyList[2]) # Nil
  /\ lookupIdx(Cur, KeyList[1]) # lookupIdx(Cur, KeyList[2])

\* ----------------------------------------------------------------- C30
\* C30: Resize only doubles the capacity and re-buckets the nodes: at every
\* step that resizes, the nodes (keys, values, expirations), Cost, Length
\* and the eviction list are the same before and after Resize, and every
\* key Get finds before the resize it finds after it.
C30_ResizePreserves ==
  [][Capacity(Cur') # Capacity(Cur) /\ Length' > Length =>
       LET r == Resize(Cur)
       IN /\ Capacity(r) = 2 * Capacity(Cur)
          /\ Capacity(Cur') = Capacity(r)
          /\ r.node = node
          /\ r.EvictList = EvictList
          /\ r.Length = Length
          /\ r.Cost = Cost
          /\ \A k \in FillKeys :
               getResult(Cur, k).found =>
                 /\ getResult(r, k) = getResult(Cur, k)
                 /\ getResult(Cur', k) = getResult(Cur, k)]_vars

\* ----------------------------------------------------------------- C29
\* A node as a snapshot record holds it: the expiration in whole seconds.
Recorded(n) == DecodeNodes(EncodeNode(n), 1).val

\* The store's entries as records, from the front of the eviction list.
RecordsInOrder == [i \in 1..Len(EvictList) |-> Recorded(node[EvictList[i]])]

SnapshotReturns == pc[Worker] = "walk" /\ pc'[Worker] # "walk"

\* C29: a Snapshot that runs while other threads call Get, Set, Delete and
\* Memorize writes the store of one moment, the one at which it returns
\* the lock: the length in the header is the number of records it wrote,
\* the records are that store's entries from the front of the eviction
\* list to its tail, each entry at one position only (so every live entry
\* exactly once), and the header carries that store's Length.
C29_SnapshotConsistent ==
  [][SnapshotReturns =>
       LET header == DecodeUint64(File'.data, 17).val
       IN /\ header = call[Worker].n
          /\ header = Length
          /\ Loaded(File'.data) = RecordsInOrder
          /\ \A w \in DOMAIN node :
               IsValid(node[w]) =>
                 Cardinality({i \in 1..Len(EvictList) : EvictList[i] = w}) = 1
          /\ Cur' = Cur]_vars

\* The walk has written one of two entries while one user waits for the
\* lock inside Memorize and the other inside Get.
C29_Witness ==
  /\ pc[Worker] = "walk"
  /\ call[Worker].n = 1
  /\ Length = 2
  /\ \E t, u \in Users : /\ pc[t] = "waiting" /\ call[t].op = "Memorize"
                         /\ pc[u] = "waiting" /\ call[u].op = "Get"

\* ----------------------------------------------------------------- C31
\* The nodes of every hash chain, from the head of the chain.
Chains ==
  [i \in DOMAIN Bucket |-> [p \in 1..Len(Bucket[i]) |-> node[Bucket[i][p]]]]

\* The chain that holds key and the place of the first node with it.
ChainWith(key) ==
  CHOOSE i \in DOMAIN Bucket : \E p \in 1..Len(Bucket[i]) : Chains[i][p].Key = key

PlaceOf(key) ==
  LET c == Chains[ChainWith(key)]
  IN CHOOSE p \in 1..Len(c) :
       c[p].Key = key /\ \A q \in 1..(p - 1) : c[q].Key # key

IsLinked(key) ==
  \E i \in DOMAIN Bucket : \E p \in 1..Len(Bucket[i]) : Chains[i][p].Key = key

\* C31: Set on a key that is linked in the hash table writes the value and
\* the expiration into the first node of the chain with that key
\* (now + ttl for ttl # 0, none for ttl = 0, whether or not the old entry
\* had expired), changes Cost by the difference of the value lengths, and
\* leaves Length, every chain's nodes and places, and every other node's key,
\* value and expiration as they were.
C31_SetReplacesInPlace ==
  [][(ret'.op = "Set" /\ IsLinked(ret'.key)) =>
       LET key == ret'.key
           idx == ChainWith(key)
           at == PlaceOf(key)
       IN /\ Length' = Length
          /\ Cost' = Cost + Len(ret'.value) - Len(Chains[idx][at].Value)
          /\ DOMAIN Bucket' = DOMAIN Bucket
          /\ \A i \in DOMAIN Bucket :
               /\ Len(Bucket'[i]) = Len(Bucket[i])
               /\ \A p \in 1..Len(Bucket[i]) :
                    LET old == Chains[i][p]
                        new == Chains'[i][p]
                    IN /\ new.Key = old.Key
                       /\ new.Hash = old.Hash
                       /\ IF i = idx /\ p = at
                          THEN /\ new.Value = ret'.value
                               /\ new.Expiration =
                                    IF ret'.ttl # 0 THEN now + ret'.ttl ELSE 0
                          ELSE /\ new.Value = old.Value
                               /\ new.Expiration = old.Expiration]_vars

\* A Set with ttl 0 and a longer value has just replaced an expired entry,
\* next to a second entry.
C31_Witness ==
  /\ ret.op = "Set"
  /\ ret.expired
  /\ ret.ttl = 0
  /\ Len(ret.value) = 2
  /\ Length = 2
  /\ Chains[ChainWith(ret.key)][PlaceOf(ret.key)].Expiration = 0

\* ----------------------------------------------------------------- C32
\* The last non-zero duration of a sequence, 0 if it has none.
RECURSIVE LastNonZero(_)
LastNonZero(ds) ==
  IF ds = <<>> THEN 0
  ELSE IF ds[Len(ds)] # 0 THEN ds[Len(ds)]
  ELSE LastNonZero(SubSeq(ds, 1, Len(ds) - 1))

\* C32 as stated: Resume arms the ticker at the last non-zero duration it
\* was given by its constructor or by Reset.
C32_ResumeLastNonZero ==
  [][ret'.op = "Resume" =>
       LET d == LastNonZero(hist.durations)
       IN d # 0 => SnapshotTicker' = [duration |-> d, running |-> TRUE]]_vars

\* C32, amended: Resume arms the ticker at the last duration it was given
\* by its constructor or by Reset, whether or not Stop was called since; if
\* that duration is zero the ticker stays stopped, also when an earlier
\* duration was not zero.
C32_ResumeLastSet ==
  [][ret'.op = "Resume" =>
       LET d == hist.durations[Len(hist.durations)]
       IN SnapshotTicker' = [duration |-> d, running |-> d # 0]]_vars

\* Resume has armed at period 2 a ticker that was built with period 1,
\* reset to 2 and then stopped.
C32_Witness ==
  /\ ret.op = "Resume"
  /\ ~ret.running
  /\ hist.durations = <<1, 2>>
  /\ SnapshotTicker = [duration |-> 2, running |-> TRUE]

\* ----------------------------------------------------------------- C33
\* C33: when a Snapshot returns, the file holds exactly the encoding of the
\* store of that moment: no byte of an earlier, longer snapshot is left
\* behind it.
C33_SnapshotTruncates ==
  [][(pc[Worker] = "inFlush" /\ pc'[Worker] # "inFlush") =>
       File'.data = EncodeStore(Cur, MaxCost, Policy)]_vars

\* ----------------------------------------------------------------- C34
\* The worker moves from position p to position q.
WorkerMoves(p, q) == pc[Worker] = p /\ pc'[Worker] = q

WorkerLeaves(p) == pc[Worker] = p /\ pc'[Worker] # p

WorkerEnters(q) == pc[Worker] # q /\ pc'[Worker] = q

\* C34: the worker starts a Cleanup only when it is spawned (after it has
\* resumed both tickers) or when its select receives a cleanup tick; a
\* Cleanup that returns removes the expired entries and is followed by
\* Evict and by nothing else; Evict starts only after the Cleanup of its
\* pass has returned, and the select is reached, and a tick received, only
\* after an Evict or a Flush has returned, so no tick is handled before
\* the first pass is over.
C34_CleanupThenEvict ==
  [][/\ WorkerLeaves("spawned")
          => /\ pc'[Worker] = "cleanup"
             /\ SnapshotTicker' = TimerResume(SnapshotTicker)
             /\ CleanupTicker' = TimerResume(CleanupTicker)
     /\ WorkerEnters("cleanup")
          => \/ pc[Worker] = "spawned"
             \/ pc[Worker] = "select" /\ CleanupTicker.running
     /\ WorkerLeaves("cleanup") => pc'[Worker] = "inCleanup"
     /\ WorkerLeaves("inCleanup")
          => \/ /\ pc'[Worker] = "evict"
                /\ Cur' = Canon(storeCleanup(Cur))
             \/ pc'[Worker] = "done" /\ hist'.panicked
     /\ WorkerEnters("evict") => pc[Worker] = "inCleanup"
     /\ WorkerLeaves("evict") => pc'[Worker] = "inEvict" /\ Cur' = Cur
     /\ WorkerEnters("inEvict") => pc[Worker] = "evict"
     /\ WorkerLeaves("inEvict")
          => \/ /\ pc'[Worker] = "select"
                /\ Cur' = Canon(storeEvict(Cur).s)
             \/ pc'[Worker] = "done" /\ hist'.panicked
     /\ WorkerEnters("select") => pc[Worker] \in {"inEvict", "flush", "inFlush"}
     /\ WorkerEnters("flush")
          => pc[Worker] = "select" /\ SnapshotTicker.running]_vars

\* After a snapshot tick was handled, a later pass has finished its Cleanup
\* and is about to start an Evict that has an entry to remove.
C34_Witness ==
  /\ pc[Worker] = "evict"
  /\ Len(File.data) > Len(EncodeStore(ClearStore, MaxCost, Policy))
  /\ Length = 2
  /\ Cost > MaxCost

\* ----------------------------------------------------------------- C35
\* The lock the thread t is requesting at its position, "none" if it is
\* not at a Lock or RLock call.
Wants(t) ==
  IF t = Worker
  THEN CASE pc[t] \in {"cleanup", "evict"} -> workerOrder[1]
         [] pc[t] \in {"cleanupHalf", "evictHalf"} -> workerOrder[2]
         [] pc[t] = "flush" /\ File.set -> "Lock"
         [] OTHER -> "none"
  ELSE CASE pc[t] = "waiting" -> "Lock"
         [] pc[t] = "listWait" -> "EvictLock"
         [] OTHER -> "none"

\* A writer that has called Lock on the store lock and has not got it.
WriterPending ==
  \E t \in Threads : Wants(t) = "Lock" /\ ~(t \in Users /\ call[t].op = "Get")

\* The request of t cannot be granted now; a reader also waits behind a
\* pending writer, as sync.RWMutex makes it.
Blocked(t) ==
  CASE Wants(t) = "Lock" ->
         IF t \in Users /\ call[t].op = "Get"
         THEN ~CanRLock(Lock) \/ WriterPending
         ELSE ~CanLock(Lock)
    [] Wants(t) = "EvictLock" -> ~CanLock(EvictLock)
    [] OTHER -> FALSE

\* t is inside a call, or the worker inside its first pass or a tick.
Busy(t) == pc[t] \notin {"idle", "select", "done"}

HoldsStoreLock(t) == Lock.w = t \/ t \in Lock.r

\* C35: while callbacks do not call the cache, user calls (Get, Set, Delete,
\* UpdateInPlace, Memorize, Clear, Flush, SetConfig) and the worker's
\* Cleanup, Evict and Flush never all wait for each other: whenever some
\* thread is inside a call, one of them is not waiting for a lock. The
\* list lock is requested and held only by a thread that holds the store
\* lock, and no thread that holds the list lock requests the store lock.
C35_NoDeadlock ==
  /\ (\E t \in Threads : Busy(t)) => \E t \in Threads : Busy(t) /\ ~Blocked(t)
  /\ \A t \in Threads :
       /\ Wants(t) = "EvictLock" => HoldsStoreLock(t)
       /\ EvictLock.w = t => HoldsStoreLock(t)
       /\ Wants(t) = "Lock" => EvictLock.w # t

\* One Get waits for the list lock that the OnAccess of the other Get
\* holds, both under the read lock, while the worker waits for the store
\* lock.
C35_Witness ==
  /\ \E t, u \in Users : /\ pc[t] = "listWait" /\ pc[u] = "listHeld"
                         /\ call[t].op = "Get" /\ call[u].op = "Get"
  /\ Lock.r = Users
  /\ Wants(Worker) = "Lock"
  /\ Blocked(Worker)

\* ----------------------------------------------------------------- C36
\* The MaxCost and the policy in the header of a snapshot.
HeaderOf(data) ==
  [MaxCost |-> Uint64(SubSeq(data, 1, 8)), Policy |-> Uint64(SubSeq(data, 9, 16))]

\* The open call c loads a snapshot.
LoadsSnapshot(c) == FileBacked(c) /\ c.disk # <<>>

\* C36: when open loads a snapshot from a file that is not empty, the
\* options are already applied (MaxCost and policy are the ones the options
\* gave), and the load then replaces both by the MaxCost and the policy of
\* the file's header, which are the ones in force when the worker starts.
C36_FileOverridesOptions ==
  /\ [][(pc[Closer] = "load" /\ pc'[Closer] = "start") =>
          LET c == call[Closer]
              n == Len(c.options)
          IN /\ MaxCost = LastArg(c.options, "WithMaxCost", 0, n)
             /\ Policy = LastArg(c.options, "WithPolicy", PolicyNone, n)
             /\ MaxCost' = HeaderOf(c.disk).MaxCost
             /\ Policy' = HeaderOf(c.disk).Policy]_vars
  /\ []((pc[Worker] # "unborn" /\ LoadsSnapshot(call[Closer]))
          => /\ MaxCost = HeaderOf(call[Closer].disk).MaxCost
             /\ Policy = HeaderOf(call[Closer].disk).Policy)

\* The worker runs on a cache opened with WithPolicy(LRU) and
\* WithMaxCost(CostLimit) from a file written under FIFO with a smaller
\* MaxCost: the file's values are in force.
C36_Witness ==
  /\ pc[Worker] = "spawned"
  /\ call[Closer].options = <<[opt |-> "WithPolicy", arg |-> PolicyLRU],
                              [opt |-> "WithMaxCost", arg |-> CostLimit]>>
  /\ LoadsSnapshot(call[Closer])
  /\ Policy = PolicyFIFO
  /\ MaxCost = SmallCost
  /\ Length = 1

\* ----------------------------------------------------------------- C37
RemoveAt(seq, p) == SubSeq(seq, 1, p - 1) \o SubSeq(seq, p + 1, Len(seq))

\* C37: Delete of a key that is linked in the hash table returns true (the
\* cache-level Delete no error) and unlinks the first node of the chain
\* with that key, expired or not, taking it out of Length and Cost and
\* leaving every other node in place; Delete of a key that is not linked
\* returns false (the cache-level Delete ErrKeyNotFound) and changes
\* nothing. Get reports an expired entry as not found and leaves it linked,
\* so a Delete right after such a Get returns true.
C37_DeleteLinked ==
  [][/\ ret'.op = "Delete" =>
          IF IsLinked(ret'.key)
          THEN LET idx == ChainWith(ret'.key)
                   at == PlaceOf(ret'.key)
               IN /\ ret'.found /\ ret'.err = "nil"
                  /\ Length' = Length - 1
                  /\ Cost' = Cost - NodeCost(Chains[idx][at])
                  /\ Chains' = [Chains EXCEPT ![idx] = RemoveAt(@, at)]
                  /\ ret'.expired = ~IsValid(Chains[idx][at])
          ELSE /\ ~ret'.found /\ ret'.err = ErrKeyNotFound
               /\ Cur' = Cur
     /\ (ret'.op = "Get" /\ IsLinked(ret'.key)
           /\ ~IsValid(Chains[ChainWith(ret'.key)][PlaceOf(ret'.key)]))
          => /\ ret'.err = ErrKeyNotFound
             /\ Cur' = Cur
             /\ lookup(Cur', ret'.key) # Nil]_vars

\* Delete has returned true for an entry that had expired, with another
\* entry still in the store.
C37_Witness ==
  /\ ret.op = "Delete"
  /\ ret.found
  /\ ret.expired
  /\ ret.err = "nil"
  /\ Length = 1

\* ----------------------------------------------------------------- C38
\* Key, value and expiration of the nodes of every hash chain, in chain
\* order.
Entries ==
  [i \in DOMAIN Bucket |->
     [p \in 1..Len(Bucket[i]) |->
        [Key |-> Chains[i][p].Key, Value |-> Chains[i][p].Value,
         Expiration |-> Chains[i][p].Expiration]]]

\* The linked nodes that have expired, by key, value and expiration.
ExpiredEntries ==
  {e \in UNION {{Entries[i][p] : p \in 1..Len(Bucket[i])} :
                   i \in DOMAIN Bucket} : ~IsValid(e)}

\* C38: Get leaves Length, Cost, the number of nodes on the eviction list and
\* the nodes of every hash chain (their keys, values, expirations and
\* places) unchanged, whether it finds the key, misses it or sees an expired
\* entry; the expired entry is reported as not found and stays linked and
\* counted.
C38_GetKeepsNodes ==
  [][ret'.op = "Get" =>
       /\ Length' = Length
       /\ Cost' = Cost
       /\ Len(EvictList') = Len(EvictList)
       /\ Entries' = Entries
       /\ ExpiredEntries' = ExpiredEntries
       /\ (/\ IsLinked(ret'.key)
           /\ ~IsValid(Chains[ChainWith(ret'.key)][PlaceOf(ret'.key)]))
            => ret'.err = ErrKeyNotFound]_vars

\* Get has just missed an expired entry, which is still linked and counted.
C38_Witness ==
  /\ ret.op = "Get"
  /\ ret.err = ErrKeyNotFound
  /\ \E e \in ExpiredEntries : e.Key = ret.key
  /\ Length = 2
  /\ Cost > 0

\* ----------------------------------------------------------------- C39
\* C39: when processFunc fails in UpdateInPlace (the key is present and
\* valid, so it was called) or factory fails in Memorize (the key is missing
\* or expired), the call returns the callback's error and the store is as
\* before: the same buckets, nodes (values, expirations, access counters),
\* eviction order, Length and Cost.
C39_FailedCallbackKeepsStore ==
  [][/\ (ret'.op \in {"UpdateInPlace", "Memorize"} /\ ret'.err = CallbackErr)
          => Cur' = Cur
     /\ (/\ ret'.op = "UpdateInPlace"
         /\ ~ret'.result.ok
         /\ lookup(Cur, ret'.key) # Nil
         /\ IsValid(node[lookup(Cur, ret'.key)]))
          => ret'.err = CallbackErr /\ ret'.called
     /\ (/\ ret'.op = "Memorize"
         /\ ~ret'.hit
         /\ Cur' = Cur)
          => ret'.err = CallbackErr]_vars

\* processFunc has failed on a valid entry that had been read before, with
\* a second entry in the store.
C39_Witness ==
  /\ ret.op = "UpdateInPlace"
  /\ ret.called
  /\ ret.err = CallbackErr
  /\ Length = 2
  /\ lookup(Cur, ret.key) # Nil
  /\ node[lookup(Cur, ret.key)].Value = <<97>>

\* ----------------------------------------------------------------- C40
\* The step is the return of a tick-triggered Flush.
FlushReturns == pc[Worker] = "inFlush" /\ pc'[Worker] = "select"

\* C40: a tick-triggered Flush either fails, keeps the file and stores its
\* error as the latent error, or writes the snapshot and keeps the latent
\* error as it was; either way the worker is back at its select with both
\* tickers running. The latent error is never reset to nil, and the Flush
\* error stays the latent error through every later tick as long as the
\* worker does not panic; while a latent error is set, every Set, Get,
\* UpdateInPlace and Memorize returns it and leaves the store alone.
C40_LatentErrorSticks ==
  [][/\ err # "nil" => err' # "nil"
     /\ FlushReturns
          => /\ \/ err' = SnapshotErr /\ File' = File
                \/ /\ err' = err
                   /\ File'.data =
                        WriteAtStart(File.data, EncodeStore(Cur, MaxCost, Policy))
             /\ SnapshotTicker'.running
             /\ CleanupTicker'.running
     /\ (err = SnapshotErr /\ pc'[Worker] # "done") => err' = SnapshotErr
     /\ (err # "nil" /\ ret' # ret)
          => /\ ret'.op \in {"Set", "Get", "UpdateInPlace", "Memorize"}
             /\ ret'.err = err
             /\ Cur' = Cur]_vars

\* Memorize has returned the error of a failed Flush; the worker is back at
\* its select and the file holds a snapshot of the two stored entries.
C40_Witness ==
  /\ err = SnapshotErr
  /\ ret.op = "Memorize"
  /\ ret.err = SnapshotErr
  /\ pc[Worker] = "select"
  /\ Length = 2
  /\ File.data = EncodeStore(Cur, MaxCost, Policy)

====
